---- MODULE Spec2Model ----
(***************************************************************************)
(* Coordination layer of the Chino-Kafuu voice assistant:                  *)
(*   - the dialog TokenRouter      (src/src/modules/dialog/token_router.py) *)
(*   - the EventBus                (src/src/core/event_bus.py)              *)
(*   - the short-term memory and the MemoryManager                         *)
(*                                 (src/src/modules/memory/...)            *)
(*   - the DialogOrchestrator      (src/src/modules/dialog/orchestrator.py) *)
(* Each component has its own specification (SpecRouter, SpecBus, SpecMem, *)
(* SpecOrch); the variables of the other components stay at their initial  *)
(* values.                                                                 *)
(***************************************************************************)
EXTENDS Integers, Sequences, FiniteSets, TLC

(* ---------------------------- bounds ---------------------------------- *)
MaxSlots == 2          \* lane counts 1..MaxSlots are explored
MaxSentences == 3      \* longest reply routed / saved
MaxRoutes == 2         \* route_sentences calls per behaviour
MaxMarks == 4          \* mark_completed calls per routed reply
MaxSubs == 2           \* subscribe calls per behaviour
MaxPublishes == 1      \* publish calls per behaviour
MaxCap == 3            \* short-term capacities 0..MaxCap are explored
MaxTurns == 5          \* turns appended per behaviour
MaxSaves == 2          \* response_ready saves per behaviour
CompressThreshold == 2 \* compress_threshold of the MemoryManager under test
MaxCalls == 2          \* process_user_message invocations per behaviour
MaxTime == 15          \* clock horizon, seconds
MaxIdle == 10          \* longest configured idle_timeout, seconds
MaxReply == 1          \* longest reply the language model returns to the orchestrator
MaxCacheOps == 5       \* storage operations per behaviour
MaxIndex == 4          \* range bounds -MaxIndex..MaxIndex are explored
MaxHistory == 22       \* turns in the buffer when a prompt is built
MaxCaptures == 3       \* audio callbacks per behaviour
MaxInterrupts == 1     \* interrupt events handled by the pipeline per behaviour
MaxClock == 2          \* wall-clock seconds a session behaviour spans
MaxSessOps == 4        \* session operations per behaviour
MaxStarts == 3         \* watchdog loop tasks created per behaviour
MaxWdCalls == 6        \* start_auto_trigger / stop_auto_trigger calls per behaviour
MaxAutoTurns == 3      \* auto-triggered turns per behaviour
MaxIds == 3            \* sentences routed to the TTS lanes per behaviour
MaxBatch == 2          \* longest list passed to one route call of the TTS router
MaxTtsRoutes == 3      \* route calls of the TTS router per behaviour

(* ------------------------ program constants --------------------------- *)
WatchdogSleep == 5     \* asyncio.sleep(5) in start_auto_trigger_loop

Payloads == {"p", "q"}
None == 0 - 1

RECURSIVE SeqsUpTo(_, _)
SeqsUpTo(S, n) ==
  IF n = 0 THEN {<<>>}
  ELSE LET shorter == SeqsUpTo(S, n - 1)
       IN  shorter \cup {Append(s, x) : s \in {t \in shorter : Len(t) = n - 1}, x \in S}

Min(a, b) == IF a < b THEN a ELSE b
Max(a, b) == IF a > b THEN a ELSE b

VARIABLES
  \* ---- TokenRouter ----
  num_slots,       \* TokenRouter.num_slots
  slots,           \* _slots: lane -> [queue, current]
  all_sentences,   \* _all_sentences: index -> [data, status, response_id]
  completed,       \* keys of _completed
  total,           \* _total
  response_id,     \* _response_id ("" is 0)
  finished_event,  \* _finished_event.is_set()
  routed,          \* the list last passed to route_sentences
  routeCount,      \* route_sentences calls so far
  markCount,       \* mark_completed calls since the last route
  marked,          \* the indices passed to them
  accepted,        \* indices for which mark_completed returned True since the last route
  rLast            \* the last router operation: [op, arg, ret, dup, changed]

routerVars == <<num_slots, slots, all_sentences, completed, total, response_id,
                finished_event, routed, routeCount, markCount, marked, accepted, rLast>>

VARIABLES
  \* ---- EventBus ----
  subscribers,     \* _subscribers: event type -> list of Subscription
  regCount,        \* subscribe calls so far (registration stamps)
  history,         \* _history
  pub,             \* the publish call in flight or last finished
  startTrace,      \* the handler calls that publish started, in start order: subscription and event
  pubCount,        \* publish calls so far
  inner,           \* the publish call a handler of pub made and awaits, if any
  bLast            \* the last call on the subscriber table: [op, event, handler, owner, ret]

busVars == <<subscribers, regCount, history, pub, startTrace, pubCount, inner, bLast>>

VARIABLES
  \* ---- ShortTermMemory / MemoryManager ----
  max_size,        \* ShortTermMemory.max_size
  buf,             \* the stored list of the session key
  appended,        \* every turn appended so far, in order
  turnCount,       \* number of turns appended so far
  summaries,       \* rows of the long-term store
  savePc,          \* position of each response_ready save (_on_llm_response)
  snap,            \* messages: the snapshot _check_and_compress took
  after,           \* the turns appended after that snapshot
  lockHolder,      \* MemoryManager._lock: the save holding it, or None
  lockWaiters,     \* saves waiting for the lock, in arrival order
  publishReturned, \* the publish of response_ready that started each save has returned
  awaits,          \* the save whose publish a memory_full handler of this compression awaits, or None
  mLast            \* the last memory operation: [op, task]

memVars == <<max_size, buf, appended, turnCount, summaries, savePc, snap, after,
             lockHolder, lockWaiters, publishReturned, awaits, mLast>>

VARIABLES
  \* ---- DialogOrchestrator and the event loop it runs on ----
  idle_timeout,           \* DialogOrchestrator.idle_timeout, as configured
  is_processing,          \* DialogOrchestrator.is_processing
  last_interaction_time,  \* DialogOrchestrator.last_interaction_time
  now,                    \* time.time(), seconds since construction
  running,                \* the task that occupies the event-loop thread, or None
  pc,                     \* position of each process_user_message call
  result,                 \* what each call handed to its caller
  wdPc,                   \* position of the watchdog task (auto_trigger_task)
  wdWakeAt,               \* when the watchdog's asyncio.sleep(5) ends
  wdResult,               \* what the last auto_trigger_conversation returned
  savedFor,               \* assistant turns saved by each turn (index 0: the watchdog's last)
  ctxLen,                 \* length of the context each turn read
  overlap,                \* the turn read its context while another turn was in flight
  queuedDuring,           \* the call was made while another turn was in flight
  interruptedDuring,      \* an interrupt arrived while the turn's model call was in flight
  interruptPending        \* a publish of interrupt is scheduled on the loop, its handlers not yet called

orchVars == <<idle_timeout, is_processing, last_interaction_time, now, running, pc, result, wdPc,
              wdWakeAt, wdResult, savedFor, ctxLen, overlap, queuedDuring,
              interruptedDuring, interruptPending>>

VARIABLES
  \* ---- RealtimePipeline and its Transcriber ----
  chunk_queue,             \* RealtimePipeline._chunk_queue, head first
  audio_buffer,            \* Transcriber.audio_buffer
  is_speaking,             \* Transcriber.is_speaking
  silence_chunks_counter,  \* Transcriber.silence_chunks_counter
  loopPc,                  \* where _loop is: "get", "process", "transcribe", "publish"
  chunk,                   \* chunk_bytes held by _loop, << >> when none
  segment,                 \* speech_segment_bytes handed to stt.transcribe
  sttPublished,            \* the STT_READY events published, with the audio they carry
  interrupts,              \* runs of _on_interrupt so far
  captured                 \* runs of _audio_callback so far

pipeVars == <<chunk_queue, audio_buffer, is_speaking, silence_chunks_counter, loopPc, chunk,
              segment, sttPublished, interrupts, captured>>

VARIABLES
  \* ---- one key held by a MemoryCache and by a RedisMemoryStorage ----
  cacheKey,        \* MemoryCache._storage: is the key present, and its list
  redisKey,        \* the same key in Redis
  cacheOut,        \* what the last operation on the MemoryCache returned
  redisOut,        \* what the same operation on the RedisMemoryStorage returned
  cacheOps         \* operations applied so far

cacheVars == <<cacheKey, redisKey, cacheOut, redisOut, cacheOps>>

VARIABLES
  \* ---- the prompt a turn hands to the language model ----
  promptIn,        \* what the turn starts from: buffer, user message, summaries
  prompt_messages         \* the list passed to generate_and_parse, << >> before it is built

promptVars == <<promptIn, prompt_messages>>

VARIABLES
  \* ---- the sessions of a ShortTermMemory ----
  current_session_id,  \* ShortTermMemory.current_session_id: the second it was generated in, or None
  storage,             \* the backend: session key -> stored list
  clock,               \* int(datetime.now().timestamp()), seconds since construction
  sessOps,             \* session operations so far
  sLast                \* the last operation: [op, prev, ret]

sessVars == <<current_session_id, storage, clock, sessOps, sLast>>

VARIABLES
  \* ---- the SentenceFIFO objects of the TokenRouter and their consumers ----
  fifoCount,       \* SentenceFIFO objects constructed so far; they are numbered from 1
  fifoOf,          \* TokenRouter._slots: lane -> the object it holds
  fifoQueue,       \* SentenceFIFO._queue of every object constructed
  waiter,          \* the consumer task of each lane: [state, fifo, got]
  laneOps          \* reset and route_sentences calls so far

waitVars == <<fifoCount, fifoOf, fifoQueue, waiter, laneOps>>

VARIABLES
  \* ---- the watchdog loop tasks of the DialogOrchestrator ----
  auto_trigger_task,   \* DialogOrchestrator.auto_trigger_task: a task, or None
  taskState,           \* every loop task: "unborn", "sleeping", "cancelling", "cancelled"
  tasksCreated,        \* asyncio.create_task calls so far; tasks are numbered from 1
  autoTurns,           \* auto_trigger_conversation runs started so far
  stopRequested,       \* stop_auto_trigger was called and start_auto_trigger not since
  wdCalls              \* start_auto_trigger / stop_auto_trigger calls so far

wdTaskVars == <<auto_trigger_task, taskState, tasksCreated, autoTurns, stopRequested, wdCalls>>

VARIABLES
  \* ---- the TTS TokenRouter ----
  queues,            \* TokenRouter._queues: label -> the sequence ids queued, head first
  next_sequence_id,  \* TokenRouter._next_sequence_id
  batches,           \* the route calls so far: [start, count] of each
  collectPc,         \* collect_in_order: "idle", "waiting" (in asyncio.wait), "returned"
  collecting,        \* the number of the batch the current collect_in_order call is for
  tts_buffer,        \* buffer: the sequence ids taken from the queues and not yet put out
  next_id,           \* next_id
  out,               \* out, as sequence ids
  returnedIds        \* the sequence ids returned by the collect_in_order calls so far

ttsVars == <<queues, next_sequence_id, batches, collectPc, collecting, tts_buffer, next_id, out,
             returnedIds>>

\* the components modelled last
otherVars == <<sessVars, waitVars, wdTaskVars, ttsVars>>

\* what the steps of one component leave alone
notRouter == <<busVars, memVars, orchVars, pipeVars, cacheVars, promptVars, otherVars>>
notBus == <<routerVars, memVars, orchVars, pipeVars, cacheVars, promptVars, otherVars>>
notMem == <<routerVars, busVars, orchVars, pipeVars, cacheVars, promptVars, otherVars>>
notOrchMem == <<routerVars, busVars, idle_timeout, pipeVars, cacheVars, promptVars, otherVars>>
notPipe == <<routerVars, busVars, memVars, orchVars, cacheVars, promptVars, otherVars>>
notCache == <<routerVars, busVars, memVars, orchVars, pipeVars, promptVars, otherVars>>
notPrompt == <<routerVars, busVars, memVars, orchVars, pipeVars, cacheVars, otherVars>>
notSess == <<routerVars, busVars, memVars, orchVars, pipeVars, cacheVars, promptVars, waitVars,
            wdTaskVars, ttsVars>>
notWait == <<routerVars, busVars, memVars, orchVars, pipeVars, cacheVars, promptVars, sessVars,
            wdTaskVars, ttsVars>>
notWdTask == <<routerVars, busVars, memVars, orchVars, pipeVars, cacheVars, promptVars, sessVars,
              waitVars, ttsVars>>
notTts == <<routerVars, busVars, memVars, orchVars, pipeVars, cacheVars, promptVars, sessVars,
           waitVars, wdTaskVars>>
notBusLoop == <<interruptPending>>

(* ======================= TokenRouter ================================== *)

PENDING == "pending"
PROCESSING == "processing"
COMPLETED == "completed"

EmptySlot == [queue |-> <<>>, current |-> None]

RouterInit(k) ==
  /\ num_slots = k
  /\ slots = [s \in 0..(k - 1) |-> EmptySlot]
  /\ all_sentences = << >>
  /\ completed = {}
  /\ total = 0
  /\ response_id = 0
  /\ finished_event = FALSE
  /\ routed = << >>
  /\ routeCount = 0
  /\ markCount = 0
  /\ marked = {}
  /\ accepted = {}
  /\ rLast = [op |-> "init", arg |-> None, ret |-> FALSE, dup |-> FALSE, changed |-> FALSE]

\* slot = self._slots[idx % self.num_slots]
SlotOfFirst(idx) == 0

SlotOf(idx) == idx % num_slots

\* the indices route_sentences enqueues on lane s, in enqueue order
RECURSIVE LaneQueue(_, _, _)
LaneQueue(s, i, n) ==
  IF i >= n THEN << >>
  ELSE IF SlotOf(i) = s THEN <<i>> \o LaneQueue(s, i + 1, n)
       ELSE LaneQueue(s, i + 1, n)

\* self._completed.clear() in reset()
ClearCompletedKept(comp) == comp

ClearCompleted(comp) == {}

\* route_sentences: reset(), then label and enqueue every sentence
RouteSentences(sentences) ==
  /\ routeCount < MaxRoutes
  /\ routeCount' = routeCount + 1
  /\ response_id' = routeCount + 1
  /\ total' = Len(sentences)
  /\ all_sentences' = [i \in 0..(Len(sentences) - 1) |->
                         [data |-> sentences[i + 1], status |-> PENDING,
                          response_id |-> routeCount + 1]]
  /\ slots' = [s \in 0..(num_slots - 1) |->
                 [queue |-> LaneQueue(s, 0, Len(sentences)), current |-> None]]
  /\ completed' = ClearCompleted(completed)
  /\ finished_event' = FALSE
  /\ routed' = sentences
  /\ markCount' = 0
  /\ marked' = {}
  /\ accepted' = {}
  /\ rLast' = [op |-> "route", arg |-> Len(sentences), ret |-> TRUE,
               dup |-> FALSE, changed |-> TRUE]
  /\ UNCHANGED num_slots
  /\ UNCHANGED notRouter

\* get_next / SentenceFIFO.dequeue on a lane that has a queued sentence
\* (wait_next does the same once a sentence is available)
GetNext(slot_id) ==
  /\ slot_id < num_slots
  /\ slots[slot_id].queue # << >>
  /\ LET idx == Head(slots[slot_id].queue)
     IN  /\ slots' = [slots EXCEPT ![slot_id] =
                        [queue |-> Tail(slots[slot_id].queue), current |-> idx]]
         /\ all_sentences' = [all_sentences EXCEPT ![idx].status = PROCESSING]
         /\ rLast' = [op |-> "get_next", arg |-> idx, ret |-> TRUE,
                      dup |-> FALSE, changed |-> TRUE]
  /\ UNCHANGED <<num_slots, completed, total, response_id, finished_event, routed,
                 routeCount, markCount, marked, accepted>>
  /\ UNCHANGED notRouter

\* get_next on an empty lane, or on a lane id that does not exist: returns None
GetNextEmpty(slot_id) ==
  /\ \/ slot_id >= num_slots
     \/ slot_id < num_slots /\ slots[slot_id].queue = << >>
  /\ rLast.op # "get_next_none"
  /\ rLast' = [op |-> "get_next_none", arg |-> slot_id, ret |-> FALSE,
               dup |-> FALSE, changed |-> FALSE]
  /\ UNCHANGED <<num_slots, slots, all_sentences, completed, total, response_id,
                 finished_event, routed, routeCount, markCount, marked, accepted>>
  /\ UNCHANGED notRouter

\* SentenceFIFO.complete_current: the status of the lane's current sentence
CompleteCurrentStatus(sts, slot) ==
  IF slot.current = None THEN sts
  ELSE [sts EXCEPT ![slot.current].status = COMPLETED]

\* the second guard of mark_completed: is the call rejected as a double completion?
AlreadyCompleted(sentence_index) ==
  all_sentences[sentence_index].status = COMPLETED

\* is_all_completed evaluated on a completed map and a total
IsAllCompleted(comp, tot) == tot > 0 /\ Cardinality(comp) = tot

MarkCompleted(sentence_index) ==
  /\ markCount < MaxMarks
  /\ markCount' = markCount + 1
  /\ marked' = marked \cup {sentence_index}
  /\ IF sentence_index \notin DOMAIN all_sentences
     THEN /\ rLast' = [op |-> "mark_completed", arg |-> sentence_index, ret |-> FALSE,
                       dup |-> FALSE, changed |-> FALSE]
          /\ UNCHANGED <<slots, all_sentences, completed, finished_event, accepted>>
     ELSE IF AlreadyCompleted(sentence_index)
     THEN /\ rLast' = [op |-> "mark_completed", arg |-> sentence_index, ret |-> FALSE,
                       dup |-> sentence_index \in accepted, changed |-> FALSE]
          /\ UNCHANGED <<slots, all_sentences, completed, finished_event, accepted>>
     ELSE LET s == SlotOf(sentence_index)
          IN  /\ all_sentences' = CompleteCurrentStatus(all_sentences, slots[s])
              /\ slots' = [slots EXCEPT ![s].current = None]
              /\ completed' = completed \cup {sentence_index}
              /\ finished_event' =
                   (finished_event \/ IsAllCompleted(completed \cup {sentence_index}, total))
              /\ accepted' = accepted \cup {sentence_index}
              /\ rLast' = [op |-> "mark_completed", arg |-> sentence_index, ret |-> TRUE,
                           dup |-> sentence_index \in accepted, changed |-> TRUE]
  /\ UNCHANGED <<num_slots, total, response_id, routed, routeCount>>
  /\ UNCHANGED notRouter

\* reset(): new lanes, empty maps
Reset ==
  /\ rLast.op # "reset"
  /\ slots' = [s \in 0..(num_slots - 1) |-> EmptySlot]
  /\ completed' = ClearCompleted(completed)
  /\ all_sentences' = << >>
  /\ total' = 0
  /\ response_id' = 0
  /\ finished_event' = FALSE
  /\ markCount' = 0
  /\ marked' = {}
  /\ accepted' = {}
  /\ rLast' = [op |-> "reset", arg |-> None, ret |-> TRUE, dup |-> FALSE, changed |-> TRUE]
  /\ UNCHANGED <<num_slots, routed, routeCount>>
  /\ UNCHANGED notRouter

\* the indices of a set in increasing order: sorted(..., key=lambda s: s.index)
RECURSIVE SortedIdx(_)
SortedIdx(S) ==
  IF S = {} THEN << >>
  ELSE LET m == CHOOSE x \in S : \A y \in S : x <= y
       IN  <<m>> \o SortedIdx(S \ {m})

\* wait_until_done: True once _finished_event is set; while it is not set the
\* call waits, and returns False when its timeout expires
WaitUntilDone == finished_event

BuildOrderedResponse ==
  LET ordered == SortedIdx(completed)
  IN  [j \in 1..Len(ordered) |-> all_sentences[ordered[j]].data]

\* get_completed_up_to: the data of sentences 0, 1, ... up to the first index
\* that is not a key of _completed
RECURSIVE CompletedFrom(_)
CompletedFrom(i) ==
  IF i >= total \/ i \notin completed THEN << >>
  ELSE <<all_sentences[i].data>> \o CompletedFrom(i + 1)

GetCompletedUpTo == CompletedFrom(0)

\* the smallest index of the reply that was not passed to mark_completed
FirstUnmarked ==
  IF (0..(total - 1)) \subseteq marked THEN total
  ELSE CHOOSE k \in 0..(total - 1) : k \notin marked /\ \A j \in 0..(k - 1) : j \in marked

RouterNext ==
  \/ \E sentences \in SeqsUpTo(Payloads, MaxSentences) : RouteSentences(sentences)
  \/ \E slot_id \in 0..MaxSlots : GetNext(slot_id)
  \/ \E slot_id \in 0..MaxSlots : GetNextEmpty(slot_id)
  \/ \E i \in 0..MaxSentences : MarkCompleted(i)
  \/ Reset

\* the router fed replies whose sentences all carry the same payload: lane
\* assignment and bookkeeping do not look at the payload
LanesNext ==
  \/ \E sentences \in SeqsUpTo({"p"}, MaxSentences) : RouteSentences(sentences)
  \/ \E slot_id \in 0..MaxSlots : GetNext(slot_id)
  \/ \E slot_id \in 0..MaxSlots : GetNextEmpty(slot_id)
  \/ \E i \in 0..MaxSentences : MarkCompleted(i)
  \/ Reset

(* ========================= EventBus =================================== *)

HIGH == 0
NORMAL == 1
LOW == 2
Priorities == {HIGH, NORMAL, LOW}
Wildcard == "*"
EventTypes == {"speech_ready", "interrupt", Wildcard}
\* the types the modelled components subscribe to
SubscribedTypes == {"speech_ready", Wildcard}
\* the event types published
PublishedTypes == {"speech_ready", "interrupt"}
Handlers == {"h1", "h2"}
\* each handler is registered under the owner label of its component
OwnerOf(h) == IF h = "h1" THEN "A" ELSE "B"
max_history == 100

IdlePub == [state |-> "idle", event |-> "", handlers |-> << >>, hstate |-> << >>,
            started |-> 0, ret |-> 0]
NoCall == [op |-> "none", event |-> "", handler |-> "", owner |-> "", ret |-> 0]

BusInit ==
  /\ subscribers = [e \in {} |-> << >>]
  /\ regCount = 0
  /\ history = << >>
  /\ pub = IdlePub
  /\ startTrace = << >>
  /\ pubCount = 0
  /\ inner = IdlePub
  /\ bLast = NoCall

\* list.sort() on Subscriptions: the order compares priority only, and is stable
SortByPriority(subs) ==
  SelectSeq(subs, LAMBDA s : s.priority = HIGH)
    \o SelectSeq(subs, LAMBDA s : s.priority = NORMAL)
    \o SelectSeq(subs, LAMBDA s : s.priority = LOW)

\* self._subscribers.get(event, [])
SubsGet(event) == IF event \in DOMAIN subscribers THEN subscribers[event] ELSE << >>

\* Subscription(priority=priority, handler=handler, owner=owner), stamped with
\* the number of the subscribe call that made it
Sub(handler, priority, reg) ==
  [priority |-> priority, handler |-> handler, owner |-> OwnerOf(handler), reg |-> reg]

\* subscribe on a table: append to the type's list (created if absent), sort
SubscribeTable(tbl, event, sub) ==
  [e \in DOMAIN tbl \cup {event} |->
     IF e = event
     THEN SortByPriority(Append(IF event \in DOMAIN tbl THEN tbl[event] ELSE << >>, sub))
     ELSE tbl[e]]

\* subscribe, whenever it is called
SubscribeCall(event, handler, priority) ==
  /\ regCount < MaxSubs
  /\ subscribers' = SubscribeTable(subscribers, event, Sub(handler, priority, regCount + 1))
  /\ regCount' = regCount + 1
  /\ bLast' = [op |-> "subscribe", event |-> event, handler |-> handler,
               owner |-> OwnerOf(handler), ret |-> 0]
  /\ UNCHANGED <<history, pub, startTrace, pubCount, inner>>
  /\ UNCHANGED notBus

\* subscribe while the components are wired, before anything is published
Subscribe(event, handler, priority) ==
  /\ pub.state # "running"
  /\ SubscribeCall(event, handler, priority)

Owners == {"A", "B", "C"}

\* removed = len(self._subscribers[event]) < before
UnsubscribeResultKeyOnly(before, remaining) == TRUE

UnsubscribeResult(before, remaining) == remaining < before

\* unsubscribe: an unknown type returns False; otherwise every subscription of
\* the handler leaves the type's list and an emptied list is deleted
Unsubscribe(event, handler) ==
  /\ IF event \notin DOMAIN subscribers
     THEN /\ subscribers' = subscribers
          /\ bLast' = [op |-> "unsubscribe", event |-> event, handler |-> handler,
                       owner |-> "", ret |-> FALSE]
     ELSE LET before == Len(subscribers[event])
              kept == SelectSeq(subscribers[event], LAMBDA s : s.handler # handler)
          IN  /\ subscribers' =
                   IF kept = << >>
                   THEN [e \in DOMAIN subscribers \ {event} |-> subscribers[e]]
                   ELSE [subscribers EXCEPT ![event] = kept]
              /\ bLast' = [op |-> "unsubscribe", event |-> event, handler |-> handler,
                           owner |-> "", ret |-> UnsubscribeResult(before, Len(kept))]
  /\ UNCHANGED <<regCount, history, pub, startTrace, pubCount, inner>>
  /\ UNCHANGED notBus

\* [s for s in subs if s.owner != owner]
NotOwnedBy(subs, owner) == SelectSeq(subs, LAMBDA s : s.owner # owner)

\* removed += before - len(self._subscribers[event]), over the event types
RECURSIVE RemovedPerEvent(_, _, _)
RemovedPerEvent(tbl, events, owner) ==
  IF events = {} THEN 0
  ELSE LET e == CHOOSE x \in events : TRUE
       IN  (IF Len(NotOwnedBy(tbl[e], owner)) < Len(tbl[e]) THEN 1 ELSE 0)
             + RemovedPerEvent(tbl, events \ {e}, owner)

RECURSIVE Removed(_, _, _)
Removed(tbl, events, owner) ==
  IF events = {} THEN 0
  ELSE LET e == CHOOSE x \in events : TRUE
       IN  (Len(tbl[e]) - Len(NotOwnedBy(tbl[e], owner)))
             + Removed(tbl, events \ {e}, owner)

\* unsubscribe_all: filter every list, count what left, delete emptied lists
UnsubscribeAll(owner) ==
  /\ LET emptied == {e \in DOMAIN subscribers : NotOwnedBy(subscribers[e], owner) = << >>}
     IN  subscribers' = [e \in DOMAIN subscribers \ emptied |->
                           NotOwnedBy(subscribers[e], owner)]
  /\ bLast' = [op |-> "unsubscribe_all", event |-> "", handler |-> "", owner |-> owner,
               ret |-> Removed(subscribers, DOMAIN subscribers, owner)]
  /\ UNCHANGED <<regCount, history, pub, startTrace, pubCount, inner>>
  /\ UNCHANGED notBus

\* the subscriber table under subscribe, unsubscribe and unsubscribe_all
TableNext ==
  \/ \E e \in SubscribedTypes, h \in Handlers, p \in Priorities : Subscribe(e, h, p)
  \/ \E e \in EventTypes, h \in Handlers : Unsubscribe(e, h)
  \/ \E o \in Owners : UnsubscribeAll(o)

\* _get_handlers: the type's subscriptions, then the wildcard ones, sorted
GetHandlers(event) ==
  LET handlers == SubsGet(event)
      wildcard == SubsGet(Wildcard)
  IN  IF wildcard # << >> THEN SortByPriority(handlers \o wildcard) ELSE handlers

\* _record_history
RecordHistory(h, event) ==
  LET h2 == Append(h, event)
  IN  IF Len(h2) > max_history
      THEN SubSeq(h2, Len(h2) - max_history + 1, Len(h2)) ELSE h2

\* _safe_call: what becomes of the task wrapping a handler, by the handler's outcome
SafeCallNoCatch(outcome) ==
  CASE outcome = "ok" -> "done"
    [] outcome = "error" -> "propagated"
    [] outcome = "cancel" -> "cancelled"
    [] OTHER -> "suspended"

SafeCall(outcome) ==
  CASE outcome = "ok" -> "done"
    [] outcome = "error" -> "failed"
    [] outcome = "cancel" -> "cancelled"
    [] OTHER -> "suspended"

Escaped == {"cancelled", "propagated"}
Finished == {"done", "failed"}

NoneSuspended ==
  \A j \in 1..Len(pub.hstate) : pub.hstate[j] \notin {"created", "suspended", "awaiting"}

\* await asyncio.gather(*tasks) in a publish call p: when does it hand back?
GatherNotAwaited(p) == TRUE

GatherDone(p) ==
  /\ p.started = Len(p.handlers)
  /\ \A j \in 1..Len(p.hstate) : p.hstate[j] \in Finished

\* publish, up to asyncio.gather: with no handler it returns 0 at once
PublishCall(event) ==
  /\ pub.state # "running"
  /\ NoneSuspended
  /\ pubCount' = pubCount + 1
  /\ LET handlers == GetHandlers(event)
     IN  IF handlers = << >>
         THEN /\ pub' = [IdlePub EXCEPT !.state = "returned", !.event = event]
              /\ UNCHANGED history
         ELSE /\ history' = RecordHistory(history, event)
              /\ pub' = [state |-> "running", event |-> event, handlers |-> handlers,
                         hstate |-> [j \in 1..Len(handlers) |-> "created"],
                         started |-> 0, ret |-> 0]
  /\ startTrace' = << >>
  /\ inner' = IdlePub
  /\ UNCHANGED <<subscribers, regCount, bLast>>
  /\ UNCHANGED notBus

Publish(event) ==
  /\ pubCount < MaxPublishes
  /\ PublishCall(event)

\* await sub.handler(event, data): the call a started task makes
HandlerCall(sub, event) ==
  [priority |-> sub.priority, handler |-> sub.handler, owner |-> sub.owner,
   reg |-> sub.reg, event |-> event]

\* the tasks gather creates take their first step in list order; each runs its
\* handler until it returns, raises, or suspends at an await
\* gather wraps every coroutine in a task at once: the next task takes its
\* first step whenever the loop is free, whatever the earlier tasks are doing
CanStartSequential(p) ==
  /\ p.started < Len(p.handlers)
  /\ \A j \in 1..p.started : p.hstate[j] \in Finished \cup Escaped

CanStart(p) == p.started < Len(p.handlers)

\* tasks.append(self._safe_call(sub, event, data)) for sub in handlers: the
\* tasks are made from the list publish read, before anything else runs
NextTaskLive(p) ==
  LET live == GetHandlers(p.event)
  IN  IF p.started + 1 <= Len(live) THEN live[p.started + 1] ELSE p.handlers[p.started + 1]

NextTask(p) == p.handlers[p.started + 1]

StartHandler(outcome) ==
  /\ pub.state = "running"
  /\ CanStart(pub)
  /\ pub' = [pub EXCEPT !.started = pub.started + 1,
                        !.hstate[pub.started + 1] = SafeCall(outcome)]
  /\ startTrace' = Append(startTrace, HandlerCall(NextTask(pub), pub.event))
  /\ UNCHANGED <<subscribers, regCount, history, pubCount, inner, bLast>>
  /\ UNCHANGED notBus

\* a suspended handler is resumed and returns or raises
ResumeHandler(j, outcome) ==
  /\ pub.started = Len(pub.handlers)
  /\ j \in 1..Len(pub.hstate)
  /\ pub.hstate[j] = "suspended"
  /\ pub' = [pub EXCEPT !.hstate[j] = SafeCall(outcome)]
  /\ UNCHANGED <<subscribers, regCount, history, startTrace, pubCount, inner, bLast>>
  /\ UNCHANGED notBus

\* await asyncio.gather(*tasks) completes: return len(tasks)
PublishReturn ==
  /\ pub.state = "running"
  /\ GatherDone(pub)
  /\ pub' = [pub EXCEPT !.state = "returned", !.ret = Len(pub.handlers)]
  /\ UNCHANGED <<subscribers, regCount, history, startTrace, pubCount, inner, bLast>>
  /\ UNCHANGED notBus

\* gather hands the first exception that escaped a task to the publisher
PublishRaise ==
  /\ pub.state = "running"
  /\ pub.started = Len(pub.handlers)
  /\ \E j \in 1..Len(pub.hstate) : pub.hstate[j] \in Escaped
  /\ pub' = [pub EXCEPT !.state = "raised"]
  /\ UNCHANGED <<subscribers, regCount, history, startTrace, pubCount, inner, bLast>>
  /\ UNCHANGED notBus

BusNext ==
  \/ \E e \in SubscribedTypes, h \in Handlers, p \in Priorities : Subscribe(e, h, p)
  \/ \E e \in PublishedTypes : Publish(e)
  \/ \E o \in {"ok", "error", "cancel", "suspend"} : StartHandler(o)
  \/ \E j \in 1..(2 * (MaxSubs + 1)), o \in {"ok", "error", "cancel"} : ResumeHandler(j, o)
  \/ PublishReturn
  \/ PublishRaise

\* a handler of pub, when started, awaits self.bus.publish(event): the nested
\* call looks up its handlers and records history; its tasks are scheduled
\* behind the tasks of pub that have not started yet
HandlerPublishes(event) ==
  /\ pub.state = "running"
  /\ pub.started < Len(pub.handlers)
  /\ inner.state = "idle"
  /\ pub' = [pub EXCEPT !.started = pub.started + 1,
                        !.hstate[pub.started + 1] = "awaiting"]
  /\ startTrace' = Append(startTrace, HandlerCall(pub.handlers[pub.started + 1], pub.event))
  /\ LET handlers == GetHandlers(event)
     IN  IF handlers = << >>
         THEN /\ inner' = [IdlePub EXCEPT !.state = "running", !.event = event]
              /\ UNCHANGED history
         ELSE /\ history' = RecordHistory(history, event)
              /\ inner' = [state |-> "running", event |-> event, handlers |-> handlers,
                           hstate |-> [j \in 1..Len(handlers) |-> "created"],
                           started |-> 0, ret |-> 0]
  /\ UNCHANGED <<subscribers, regCount, pubCount, bLast>>
  /\ UNCHANGED notBus

\* a task of the nested publish takes its first step
InnerStartHandler(outcome) ==
  /\ inner.state = "running"
  /\ pub.started = Len(pub.handlers)
  /\ inner.started < Len(inner.handlers)
  /\ inner' = [inner EXCEPT !.started = inner.started + 1,
                            !.hstate[inner.started + 1] = SafeCall(outcome)]
  /\ UNCHANGED <<subscribers, regCount, history, pub, startTrace, pubCount, bLast>>
  /\ UNCHANGED notBus

\* a suspended handler of the nested publish is resumed and returns or raises
InnerResumeHandler(j, outcome) ==
  /\ inner.state = "running"
  /\ inner.started = Len(inner.handlers)
  /\ j \in 1..Len(inner.hstate)
  /\ inner.hstate[j] = "suspended"
  /\ inner' = [inner EXCEPT !.hstate[j] = SafeCall(outcome)]
  /\ UNCHANGED <<subscribers, regCount, history, pub, startTrace, pubCount, bLast>>
  /\ UNCHANGED notBus

\* the nested publish returns to the handler that awaits it; the handler goes
\* on and is resumed like any suspended handler
InnerPublishReturn ==
  /\ inner.state = "running"
  /\ GatherDone(inner)
  /\ inner' = [inner EXCEPT !.state = "returned", !.ret = Len(inner.handlers)]
  /\ pub' = [pub EXCEPT !.hstate =
               [j \in 1..Len(pub.hstate) |->
                  IF pub.hstate[j] = "awaiting" THEN "suspended" ELSE pub.hstate[j]]]
  /\ UNCHANGED <<subscribers, regCount, history, startTrace, pubCount, bLast>>
  /\ UNCHANGED notBus

\* the subscriber table of the event chain speech_ready -> response_ready: the
\* dialog engine and the memory on speech_ready, the memory and the token
\* router on response_ready
ChainTable ==
  LET t0 == [e \in {} |-> << >>]
      t1 == SubscribeTable(t0, "speech_ready", Sub("h1", NORMAL, 1))
      t2 == SubscribeTable(t1, "speech_ready", Sub("h2", NORMAL, 2))
      t3 == SubscribeTable(t2, "response_ready", Sub("h2", NORMAL, 3))
  IN  SubscribeTable(t3, "response_ready", Sub("h1", NORMAL, 4))

\* the chain, alone or with one more subscriber on the wildcard type
ChainTables ==
  {ChainTable} \cup {SubscribeTable(ChainTable, Wildcard, Sub("h2", p, 5)) : p \in Priorities}

BusInitWired(table, count) ==
  /\ subscribers = table
  /\ regCount = count
  /\ history = << >>
  /\ pub = IdlePub
  /\ startTrace = << >>
  /\ pubCount = 0
  /\ inner = IdlePub
  /\ bLast = NoCall

\* the bus with a handler that publishes a follow-up event
NestedNext ==
  \/ \E e \in PublishedTypes : Publish(e)
  \/ \E o \in {"ok", "error", "cancel", "suspend"} : StartHandler(o)
  \/ \E j \in 1..(2 * (MaxSubs + 1)), o \in {"ok", "error", "cancel"} : ResumeHandler(j, o)
  \/ PublishReturn
  \/ PublishRaise
  \/ HandlerPublishes("response_ready")
  \/ \E o \in {"ok", "error", "suspend"} : InnerStartHandler(o)
  \/ \E j \in 1..(2 * (MaxSubs + 1)), o \in {"ok", "error"} : InnerResumeHandler(j, o)
  \/ InnerPublishReturn

\* two components subscribed to speech_ready while they were constructed
PairTable ==
  SubscribeTable(SubscribeTable([x \in {} |-> << >>], "speech_ready", Sub("h1", NORMAL, 0)),
                 "speech_ready", Sub("h2", NORMAL, 0))

\* a publish after the one that was in flight
PublishNext(event) ==
  /\ pubCount < MaxPublishes + 1
  /\ PublishCall(event)

\* subscribe, unsubscribe and unsubscribe_all called while a publish is in
\* flight: by a handler that runs, or by another task while handlers are
\* suspended
SubscribeDuring(event, handler, priority) ==
  /\ pub.state = "running"
  /\ SubscribeCall(event, handler, priority)

UnsubscribeDuring(event, handler) ==
  /\ pub.state = "running"
  /\ Unsubscribe(event, handler)

UnsubscribeAllDuring(owner) ==
  /\ pub.state = "running"
  /\ UnsubscribeAll(owner)

MidPublishNext ==
  \/ \E e \in SubscribedTypes, p \in {HIGH, LOW} : SubscribeDuring(e, "h1", p)
  \/ \E h \in Handlers : UnsubscribeDuring("speech_ready", h)
  \/ \E h \in Handlers : UnsubscribeAllDuring(OwnerOf(h))
  \/ PublishNext("speech_ready")
  \/ StartHandler("suspend")
  \/ \E j \in 1..(2 * (MaxSubs + 1)) : ResumeHandler(j, "ok")
  \/ PublishReturn

\* publish takes any string as the event type, "*" included
WildNext ==
  \/ BusNext
  \/ Publish(Wildcard)


(* ============== MemoryCache / ShortTermMemory / MemoryManager ========= *)

\* Python's list[s:e]
PySlice(list, s, e) ==
  LET n  == Len(list)
      lo == IF s < 0 THEN Max(n + s, 0) ELSE Min(s, n)
      hi == IF e < 0 THEN Max(n + e, 0) ELSE Min(e, n)
  IN  SubSeq(list, lo + 1, hi)

\* MemoryCache._resolve_range
ResolveRange(length, start, end) ==
  LET s == IF start < 0 THEN Max(length + start, 0) ELSE start
      e == IF end < 0 THEN length + end ELSE end
  IN  <<s, e + 1>>

\* MemoryCache.get_messages on an existing key
GetMessages(list, start, end) ==
  LET r == ResolveRange(Len(list), start, end) IN PySlice(list, r[1], r[2])

\* MemoryCache.trim on an existing key
Trim(list, start, end) ==
  LET r == ResolveRange(Len(list), start, end) IN PySlice(list, r[1], r[2])

\* add_user_message / add_chino_response: add_message, then trim(key, -max_size, -1)
StmAdd(list, entry) == Trim(Append(list, entry), 0 - max_size, 0 - 1)

UserTurn(id) ==
  [id |-> id, role |-> "user", stream_index |-> 0, is_completed |-> TRUE]

\* data.latency_ms, what the reply took
latency_ms == 120

\* latency_ms=data.latency_ms if idx == 0 else 0
LatencyAtEvery(idx) == latency_ms

LatencyAt(idx) == IF idx = 0 THEN latency_ms ELSE 0

ChinoTurn(id, idx, n) ==
  [id |-> id, role |-> "chino", stream_index |-> idx, is_completed |-> (idx = n - 1),
   latency_ms |-> LatencyAt(idx)]

\* the for loop over the reply's sentences: one add_chino_response per sentence
RECURSIVE AddResponses(_, _, _, _)
AddResponses(list, firstId, idx, n) ==
  IF idx >= n THEN list
  ELSE AddResponses(StmAdd(list, ChinoTurn(firstId + idx, idx, n)), firstId, idx + 1, n)

NewTurns(firstId, n) == [j \in 1..n |-> ChinoTurn(firstId + j - 1, j - 1, n)]

Saves == 1..MaxSaves

\* ShortTermMemory.storage_key, the key _check_and_compress hands to trim: it
\* names the list of the current session
HasStorageKey == TRUE
Snapshotted(r) == savePc[r] \in {"waitlock", "summarizing"}

MemInit(cap) ==
  /\ max_size = cap
  /\ buf = << >>
  /\ appended = << >>
  /\ turnCount = 0
  /\ summaries = << >>
  /\ savePc = [r \in Saves |-> "new"]
  /\ snap = [r \in Saves |-> << >>]
  /\ after = [r \in Saves |-> << >>]
  /\ lockHolder = None
  /\ lockWaiters = << >>
  /\ publishReturned = [r \in Saves |-> FALSE]
  /\ awaits = [r \in Saves |-> None]
  /\ mLast = [op |-> "init", task |-> None]

\* _on_stt_ready
OnSttReady ==
  /\ turnCount < MaxTurns
  /\ LET t == UserTurn(turnCount + 1)
     IN  /\ buf' = StmAdd(buf, t)
         /\ appended' = Append(appended, t)
         /\ after' = [r \in Saves |-> IF Snapshotted(r) THEN Append(after[r], t) ELSE after[r]]
  /\ turnCount' = turnCount + 1
  /\ mLast' = [op |-> "add_user", task |-> None]
  /\ UNCHANGED <<max_size, summaries, savePc, snap, lockHolder, lockWaiters,
                 publishReturned, awaits>>
  /\ UNCHANGED notMem

\* _on_llm_response with n sentences, up to the first suspension of
\* _check_and_compress (the lock, or the summarizer thread)
SaveResponse(r, n) ==
  /\ savePc[r] = "new"
  /\ \A q \in Saves : q < r => savePc[q] # "new"
  /\ turnCount + n <= MaxTurns
  /\ LET nb == AddResponses(buf, turnCount + 1, 0, n)
         nt == NewTurns(turnCount + 1, n)
         messages == GetMessages(nb, 0, 0 - 1)
     IN  /\ buf' = nb
         /\ appended' = appended \o nt
         /\ after' = [q \in Saves |-> IF Snapshotted(q) THEN after[q] \o nt ELSE after[q]]
         /\ IF Len(messages) < CompressThreshold
            THEN /\ savePc' = [savePc EXCEPT ![r] = "done"]
                 /\ UNCHANGED <<snap, lockHolder, lockWaiters>>
            ELSE /\ snap' = [snap EXCEPT ![r] = messages]
                 /\ IF lockHolder = None
                    THEN /\ lockHolder' = r
                         /\ savePc' = [savePc EXCEPT ![r] = "summarizing"]
                         /\ UNCHANGED lockWaiters
                    ELSE /\ lockWaiters' = Append(lockWaiters, r)
                         /\ savePc' = [savePc EXCEPT ![r] = "waitlock"]
                         /\ UNCHANGED lockHolder
  /\ turnCount' = turnCount + n
  /\ mLast' = [op |-> "add_chino", task |-> r]
  /\ UNCHANGED <<max_size, summaries, publishReturned>>
  /\ UNCHANGED notMem

\* a publish of response_ready calls the handler
OnLlmResponse(r, n) ==
  /\ SaveResponse(r, n)
  /\ UNCHANGED awaits

\* async with self._lock: the first waiter takes the released lock
LockGranted(r) ==
  /\ savePc[r] = "waitlock"
  /\ lockHolder = None
  /\ lockWaiters # << >> /\ Head(lockWaiters) = r
  /\ lockHolder' = r
  /\ lockWaiters' = Tail(lockWaiters)
  /\ savePc' = [savePc EXCEPT ![r] = "summarizing"]
  /\ mLast' = [op |-> "lock", task |-> r]
  /\ UNCHANGED <<max_size, buf, appended, turnCount, summaries, snap, after,
                 publishReturned, awaits>>
  /\ UNCHANGED notMem

\* except Exception in _check_and_compress: how the response_ready handler ends
\* after a compression that succeeded ("ok") or failed at some step
CompressEndNoCatch(outcome) == IF outcome = "ok" THEN "done" ELSE "raised"

CompressEnd(outcome) == IF outcome = "ok" THEN "done" ELSE "failed"

\* the summarizer thread is back: score, add_summary, trim(key, len(messages), -1),
\* publish memory_full (no subscriber), release the lock
CompressFinish(r, outcome) ==
  /\ savePc[r] = "summarizing"
  /\ lockHolder = r
  /\ lockHolder' = None
  /\ savePc' = [savePc EXCEPT ![r] = CompressEnd(outcome)]
  /\ CASE outcome = "ok" ->
            /\ HasStorageKey
            /\ summaries' = Append(summaries, [turns |-> snap[r], message_count |-> Len(snap[r])])
            /\ buf' = Trim(buf, Len(snap[r]), 0 - 1)
            /\ mLast' = [op |-> "compressed", task |-> r]
       [] outcome = "fail_trim" ->
            /\ summaries' = Append(summaries, [turns |-> snap[r], message_count |-> Len(snap[r])])
            /\ mLast' = [op |-> "compress_failed", task |-> r]
            /\ UNCHANGED buf
       [] OTHER ->
            /\ mLast' = [op |-> "compress_failed", task |-> r]
            /\ UNCHANGED <<buf, summaries>>
  /\ UNCHANGED <<max_size, appended, turnCount, snap, after, lockWaiters, publishReturned,
                 awaits>>
  /\ UNCHANGED notMem

\* with a subscriber to memory_full: the compression has scored, persisted and
\* trimmed, and awaits bus.publish(memory_full), still inside async with self._lock
CompressPublish(r) ==
  /\ savePc[r] = "summarizing"
  /\ lockHolder = r
  /\ HasStorageKey
  /\ summaries' = Append(summaries, [turns |-> snap[r], message_count |-> Len(snap[r])])
  /\ buf' = Trim(buf, Len(snap[r]), 0 - 1)
  /\ savePc' = [savePc EXCEPT ![r] = "publishing"]
  /\ mLast' = [op |-> "compressed", task |-> r]
  /\ UNCHANGED <<max_size, appended, turnCount, snap, after, lockHolder, lockWaiters,
                 publishReturned, awaits>>
  /\ UNCHANGED notMem

\* the memory_full handler awaits bus.publish(response_ready, n sentences):
\* _on_llm_response runs for it as save q, inside the handler's task
MemoryFullHandlerPublishes(r, q, n) ==
  /\ savePc[r] = "publishing"
  /\ awaits[r] = None
  /\ SaveResponse(q, n)
  /\ awaits' = [awaits EXCEPT ![r] = q]

\* the memory_full handler returns (after the publish it awaited, if any, has
\* returned): gather ends, publish returns, the lock is released
MemoryFullHandlerReturns(r) ==
  /\ savePc[r] = "publishing"
  /\ lockHolder = r
  /\ awaits[r] # None => savePc[awaits[r]] \in {"done", "failed"}
  /\ lockHolder' = None
  /\ savePc' = [savePc EXCEPT ![r] = CompressEnd("ok")]
  /\ UNCHANGED <<max_size, buf, appended, turnCount, summaries, snap, after, lockWaiters,
                 publishReturned, awaits, mLast>>
  /\ UNCHANGED notMem

\* the publish of response_ready that called _on_llm_response for save r:
\* await asyncio.gather(*tasks) ends when the handler has ended, then it returns
ResponsePublishReturn(r) ==
  /\ savePc[r] \in {"done", "failed"}
  /\ ~publishReturned[r]
  /\ publishReturned' = [publishReturned EXCEPT ![r] = TRUE]
  /\ UNCHANGED <<max_size, buf, appended, turnCount, summaries, savePc, snap, after,
                 lockHolder, lockWaiters, awaits, mLast>>
  /\ UNCHANGED notMem

MemNext ==
  \/ OnSttReady
  \/ \E r \in Saves, n \in 0..MaxSentences : OnLlmResponse(r, n)
  \/ \E r \in Saves : LockGranted(r)
  \/ \E r \in Saves, o \in {"ok", "fail_trim", "fail"} : CompressFinish(r, o)
  \/ \E r \in Saves : ResponsePublishReturn(r)

\* the Memory Manager on a bus where a component subscribes to memory_full
MemFullNext ==
  \/ MemNext
  \/ \E r \in Saves : CompressPublish(r)
  \/ \E r, q \in Saves, n \in 0..MaxSentences : MemoryFullHandlerPublishes(r, q, n)
  \/ \E r \in Saves : MemoryFullHandlerReturns(r)


(* ===================== DialogOrchestrator ============================= *)

WD == 0
Calls == 1..MaxCalls
Tasks == 0..MaxCalls

InFlight(t) == IF t = WD THEN wdPc = "llm" ELSE pc[t] = "llm"
OtherInFlight(t) == \E u \in Tasks : u # t /\ InFlight(u)

\* every construction passes IDLE_TIMEOUT_SECONDS, whose default is 0
IdleTimeouts == {MaxIdle}

OrchInit(timeout) ==
  /\ idle_timeout = timeout
  /\ is_processing = FALSE
  /\ last_interaction_time = 0
  /\ now = 0
  /\ running = None
  /\ pc = [c \in Calls |-> "new"]
  /\ result = [c \in Calls |-> "none"]
  /\ wdPc = "none"
  /\ wdWakeAt = 0
  /\ wdResult = "none"
  /\ savedFor = [t \in Tasks |-> 0]
  /\ ctxLen = [t \in Tasks |-> 0]
  /\ overlap = [t \in Tasks |-> FALSE]
  /\ queuedDuring = [c \in Calls |-> FALSE]
  /\ interruptedDuring = [t \in Tasks |-> FALSE]
  /\ interruptPending = FALSE

\* self.llm.generate_and_parse(messages) is a plain call: the task that makes it
\* keeps the event-loop thread until it returns
LlmCallHolderAwaited(t) == None

LlmCallHolder(t) == t

\* finally: self.is_processing = False, on the return path and on the raise path
ProcessingAfterNoFinally(outcome) == outcome = "raise"

ProcessingAfter(outcome) == FALSE

\* time passes, whatever the event loop is doing; a free loop runs a timer that
\* is due before the next tick
Tick ==
  /\ now + WatchdogSleep <= MaxTime
  /\ ~(running = None /\ wdPc = "sleeping" /\ now >= wdWakeAt)
  /\ now' = now + WatchdogSleep
  /\ UNCHANGED <<is_processing, last_interaction_time, running, pc, result, wdPc, wdWakeAt,
                 wdResult, savedFor, ctxLen, overlap, queuedDuring, interruptedDuring>>
  /\ UNCHANGED memVars
  /\ UNCHANGED notOrchMem
  /\ UNCHANGED notBusLoop

\* a caller invokes process_user_message: the coroutine is scheduled on the loop
Invoke(c) ==
  /\ pc[c] = "new"
  /\ \A d \in Calls : d < c => pc[d] # "new"
  /\ pc' = [pc EXCEPT ![c] = "queued"]
  /\ queuedDuring' = [queuedDuring EXCEPT ![c] = \E t \in Tasks : InFlight(t)]
  /\ UNCHANGED <<is_processing, last_interaction_time, now, running, result, wdPc, wdWakeAt,
                 wdResult, savedFor, ctxLen, overlap, interruptedDuring>>
  /\ UNCHANGED memVars
  /\ UNCHANGED notOrchMem
  /\ UNCHANGED notBusLoop

\* process_user_message from its first line to the generate_and_parse call:
\* flags, summaries, add_user_message, get_conversation_context, build_prompt
BeginTurn(c) ==
  /\ pc[c] = "queued"
  /\ running = None
  /\ is_processing' = TRUE
  /\ last_interaction_time' = now
  /\ LET t == UserTurn(turnCount + 1)
     IN  /\ buf' = StmAdd(buf, t)
         /\ appended' = Append(appended, t)
         /\ ctxLen' = [ctxLen EXCEPT ![c] = Len(GetMessages(StmAdd(buf, t), 0, 0 - 1))]
  /\ turnCount' = turnCount + 1
  /\ overlap' = [overlap EXCEPT ![c] = OtherInFlight(c)]
  /\ pc' = [pc EXCEPT ![c] = "llm"]
  /\ running' = LlmCallHolder(c)
  /\ UNCHANGED <<now, result, wdPc, wdWakeAt, wdResult, savedFor, queuedDuring,
                 interruptedDuring>>
  /\ UNCHANGED <<max_size, summaries, savePc, snap, after, lockHolder, lockWaiters,
                 publishReturned, awaits, mLast>>
  /\ UNCHANGED notOrchMem
  /\ UNCHANGED notBusLoop

\* generate_and_parse returned n sentences: save them, schedule the token-limit
\* check (without a mid-term store it changes nothing), return saved_responses
LlmReturn(c, n) ==
  /\ pc[c] = "llm"
  /\ running = LlmCallHolder(c)
  /\ buf' = AddResponses(buf, turnCount + 1, 0, n)
  /\ appended' = appended \o NewTurns(turnCount + 1, n)
  /\ turnCount' = turnCount + n
  /\ savedFor' = [savedFor EXCEPT ![c] = n]
  /\ result' = [result EXCEPT ![c] = "responses"]
  /\ pc' = [pc EXCEPT ![c] = "returned"]
  /\ is_processing' = ProcessingAfter("return")
  /\ running' = None
  /\ UNCHANGED <<last_interaction_time, now, wdPc, wdWakeAt, wdResult, ctxLen, overlap,
                 queuedDuring, interruptedDuring>>
  /\ UNCHANGED <<max_size, summaries, savePc, snap, after, lockHolder, lockWaiters,
                 publishReturned, awaits, mLast>>
  /\ UNCHANGED notOrchMem
  /\ UNCHANGED notBusLoop

\* generate_and_parse raised: except ... raise, finally
LlmRaise(c) ==
  /\ pc[c] = "llm"
  /\ running = LlmCallHolder(c)
  /\ result' = [result EXCEPT ![c] = "exception"]
  /\ pc' = [pc EXCEPT ![c] = "raised"]
  /\ is_processing' = ProcessingAfter("raise")
  /\ running' = None
  /\ UNCHANGED <<last_interaction_time, now, wdPc, wdWakeAt, wdResult, savedFor, ctxLen,
                 overlap, queuedDuring, interruptedDuring>>
  /\ UNCHANGED memVars
  /\ UNCHANGED notOrchMem
  /\ UNCHANGED notBusLoop

\* start_auto_trigger: create the loop task unless one is live
StartAutoTrigger ==
  /\ running = None
  /\ wdPc = "none"
  /\ wdPc' = "sleeping"
  /\ wdWakeAt' = now + WatchdogSleep
  /\ UNCHANGED <<is_processing, last_interaction_time, now, running, pc, result, wdResult,
                 savedFor, ctxLen, overlap, queuedDuring, interruptedDuring>>
  /\ UNCHANGED memVars
  /\ UNCHANGED notOrchMem
  /\ UNCHANGED notBusLoop

\* stop_auto_trigger: cancel the task; it is suspended in asyncio.sleep and ends
StopAutoTrigger ==
  /\ running = None
  /\ wdPc = "sleeping"
  /\ wdPc' = "none"
  /\ UNCHANGED <<is_processing, last_interaction_time, now, running, pc, result, wdWakeAt,
                 wdResult, savedFor, ctxLen, overlap, queuedDuring, interruptedDuring>>
  /\ UNCHANGED memVars
  /\ UNCHANGED notOrchMem
  /\ UNCHANGED notBusLoop

\* the watchdog wakes from asyncio.sleep(5) and does not trigger
WatchdogSkip ==
  /\ wdPc = "sleeping"
  /\ running = None
  /\ now >= wdWakeAt
  /\ \/ is_processing
     \/ now - last_interaction_time < idle_timeout
  /\ wdWakeAt' = now + WatchdogSleep
  /\ UNCHANGED <<is_processing, last_interaction_time, now, running, pc, result, wdPc,
                 wdResult, savedFor, ctxLen, overlap, queuedDuring, interruptedDuring>>
  /\ UNCHANGED memVars
  /\ UNCHANGED notOrchMem
  /\ UNCHANGED notBusLoop

\* the watchdog wakes and runs auto_trigger_conversation up to generate_and_parse
WatchdogTrigger ==
  /\ wdPc = "sleeping"
  /\ running = None
  /\ now >= wdWakeAt
  /\ ~is_processing
  /\ now - last_interaction_time >= idle_timeout
  /\ is_processing' = TRUE
  /\ ctxLen' = [ctxLen EXCEPT ![WD] = Len(GetMessages(buf, 0, 0 - 1))]
  /\ overlap' = [overlap EXCEPT ![WD] = OtherInFlight(WD)]
  /\ savedFor' = [savedFor EXCEPT ![WD] = 0]
  /\ interruptedDuring' = [interruptedDuring EXCEPT ![WD] = FALSE]
  /\ wdPc' = "llm"
  /\ running' = LlmCallHolder(WD)
  /\ UNCHANGED <<last_interaction_time, now, pc, result, wdWakeAt, wdResult, queuedDuring>>
  /\ UNCHANGED memVars
  /\ UNCHANGED notOrchMem
  /\ UNCHANGED notBusLoop

\* auto_trigger_conversation: the model returned n sentences
WatchdogLlmReturn(n) ==
  /\ wdPc = "llm"
  /\ running = LlmCallHolder(WD)
  /\ buf' = AddResponses(buf, turnCount + 1, 0, n)
  /\ appended' = appended \o NewTurns(turnCount + 1, n)
  /\ turnCount' = turnCount + n
  /\ savedFor' = [savedFor EXCEPT ![WD] = n]
  /\ last_interaction_time' = now
  /\ wdResult' = "responses"
  /\ is_processing' = ProcessingAfter("return")
  /\ wdPc' = "sleeping"
  /\ wdWakeAt' = now + WatchdogSleep
  /\ running' = None
  /\ UNCHANGED <<now, pc, result, ctxLen, overlap, queuedDuring, interruptedDuring>>
  /\ UNCHANGED <<max_size, summaries, savePc, snap, after, lockHolder, lockWaiters,
                 publishReturned, awaits, mLast>>
  /\ UNCHANGED notOrchMem
  /\ UNCHANGED notBusLoop

\* auto_trigger_conversation: the model raised; except ... return [], finally
WatchdogLlmRaise ==
  /\ wdPc = "llm"
  /\ running = LlmCallHolder(WD)
  /\ wdResult' = "empty"
  /\ is_processing' = ProcessingAfter("raise")
  /\ wdPc' = "sleeping"
  /\ wdWakeAt' = now + WatchdogSleep
  /\ running' = None
  /\ UNCHANGED <<last_interaction_time, now, pc, result, savedFor, ctxLen, overlap,
                 queuedDuring, interruptedDuring>>
  /\ UNCHANGED memVars
  /\ UNCHANGED notOrchMem
  /\ UNCHANGED notBusLoop

\* an interrupt is published while a model call is in flight: the publish
\* coroutine is scheduled on the event loop. The orchestrator subscribes no
\* handler and keeps no cancellation flag, so its own state does not change
\* (an interrupt that arrives between turns touches nothing either)
InterruptArrives ==
  /\ ~interruptPending
  /\ \E t \in Tasks : InFlight(t) /\ ~interruptedDuring[t]
  /\ interruptedDuring' = [t \in Tasks |-> interruptedDuring[t] \/ InFlight(t)]
  /\ interruptPending' = TRUE
  /\ UNCHANGED <<is_processing, last_interaction_time, now, running, pc, result, wdPc,
                 wdWakeAt, wdResult, savedFor, ctxLen, overlap, queuedDuring>>
  /\ UNCHANGED memVars
  /\ UNCHANGED notOrchMem

\* the event loop runs the scheduled publish: EventBus.publish calls the
\* handlers of interrupt. The loop runs it when no task occupies its thread
DeliverInterrupt ==
  /\ interruptPending
  /\ running = None
  /\ interruptPending' = FALSE
  /\ UNCHANGED <<is_processing, last_interaction_time, now, running, pc, result, wdPc,
                 wdWakeAt, wdResult, savedFor, ctxLen, overlap, queuedDuring,
                 interruptedDuring>>
  /\ UNCHANGED memVars
  /\ UNCHANGED notOrchMem

LlmFinish(t) ==
  IF t = WD THEN (\E n \in 0..MaxReply : WatchdogLlmReturn(n)) \/ WatchdogLlmRaise
  ELSE (\E n \in 0..MaxReply : LlmReturn(t, n)) \/ LlmRaise(t)

OrchNext ==
  \/ Tick
  \/ \E c \in Calls : Invoke(c)
  \/ \E c \in Calls : BeginTurn(c)
  \/ \E c \in Calls, n \in 0..MaxReply : LlmReturn(c, n)
  \/ \E c \in Calls : LlmRaise(c)
  \/ StartAutoTrigger
  \/ StopAutoTrigger
  \/ WatchdogSkip
  \/ WatchdogTrigger
  \/ \E n \in 0..MaxReply : WatchdogLlmReturn(n)
  \/ WatchdogLlmRaise

\* the orchestrator on a bus that carries interrupt events
InterruptNext ==
  \/ OrchNext
  \/ InterruptArrives
  \/ DeliverInterrupt

(* ===================== RealtimePipeline =============================== *)

\* thread_queue.Queue(maxsize=300)
maxsize == 300
\* SILENCE_CHUNKS_NEEDED, by default
SILENCE_CHUNKS_NEEDED == 0

\* a chunk of audio: what the VAD will say of it, and the number of
\* interrupts handled before it was captured
Chunk(speech, ep) == [speech |-> speech, ep |-> ep]

\* the queue when the pipeline is first looked at: empty, or holding the
\* silence captured while the loop was kept from reading
Backlogs == {0, maxsize - 1}

PipeInit(backlog) ==
  /\ chunk_queue = [i \in 1..backlog |-> Chunk(FALSE, 0)]
  /\ audio_buffer = << >>
  /\ is_speaking = FALSE
  /\ silence_chunks_counter = 0
  /\ loopPc = "get"
  /\ chunk = << >>
  /\ segment = << >>
  /\ sttPublished = << >>
  /\ interrupts = 0
  /\ captured = 0

\* self._chunk_queue.put_nowait(chunk_bytes) except thread_queue.Full: pass
PutNoLimit(q, c) == Append(q, c)

PutNowait(q, c) == IF Len(q) >= maxsize THEN q ELSE Append(q, c)

\* _audio_callback, on the audio thread
AudioCallback(speech) ==
  /\ captured < MaxCaptures
  /\ captured' = captured + 1
  /\ chunk_queue' = PutNowait(chunk_queue, Chunk(speech, interrupts))
  /\ UNCHANGED <<audio_buffer, is_speaking, silence_chunks_counter, loopPc, chunk, segment,
                 sttPublished, interrupts>>
  /\ UNCHANGED notPipe

\* _blocking_get_chunk, on an executor thread, hands the head of the queue to
\* _loop (an empty queue gives None and _loop asks again)
BlockingGetChunk ==
  /\ loopPc = "get"
  /\ chunk_queue # << >>
  /\ chunk' = <<Head(chunk_queue)>>
  /\ chunk_queue' = Tail(chunk_queue)
  /\ loopPc' = "process"
  /\ UNCHANGED <<audio_buffer, is_speaking, silence_chunks_counter, segment, sttPublished,
                 interrupts, captured>>
  /\ UNCHANGED notPipe

\* Transcriber.process on a worker thread, up to the call of stt.transcribe
TranscriberProcess ==
  /\ loopPc = "process"
  /\ IF chunk[1].speech
     THEN /\ is_speaking' = TRUE
          /\ silence_chunks_counter' = 0
          /\ audio_buffer' = Append(audio_buffer, chunk[1])
          /\ loopPc' = "get"
          /\ UNCHANGED segment
     ELSE IF is_speaking
          THEN /\ silence_chunks_counter' = silence_chunks_counter + 1
               /\ IF silence_chunks_counter + 1 >= SILENCE_CHUNKS_NEEDED
                  THEN segment' = audio_buffer /\ loopPc' = "transcribe"
                  ELSE UNCHANGED segment /\ loopPc' = "get"
               /\ UNCHANGED <<is_speaking, audio_buffer>>
          ELSE /\ loopPc' = "get"
               /\ UNCHANGED <<is_speaking, silence_chunks_counter, audio_buffer, segment>>
  /\ chunk' = << >>
  /\ UNCHANGED <<chunk_queue, sttPublished, interrupts, captured>>
  /\ UNCHANGED notPipe

\* stt.transcribe returns on the worker thread and process resets the
\* transcriber; a blank transcription is not published
SttTranscribe(text) ==
  /\ loopPc = "transcribe"
  /\ audio_buffer' = << >>
  /\ is_speaking' = FALSE
  /\ silence_chunks_counter' = 0
  /\ loopPc' = IF text # "" THEN "publish" ELSE "get"
  /\ segment' = IF text # "" THEN segment ELSE << >>
  /\ UNCHANGED <<chunk_queue, chunk, sttPublished, interrupts, captured>>
  /\ UNCHANGED notPipe

\* stt.transcribe raises: _loop logs, sleeps and reads the next chunk
SttRaise ==
  /\ loopPc = "transcribe"
  /\ loopPc' = "get"
  /\ segment' = << >>
  /\ UNCHANGED <<chunk_queue, audio_buffer, is_speaking, silence_chunks_counter, chunk,
                 sttPublished, interrupts, captured>>
  /\ UNCHANGED notPipe

\* await self.bus.publish(events.STT_READY, payload)
PublishSttReady ==
  /\ loopPc = "publish"
  /\ sttPublished' = Append(sttPublished, [audio |-> segment, interrupts |-> interrupts])
  /\ segment' = << >>
  /\ loopPc' = "get"
  /\ UNCHANGED <<chunk_queue, audio_buffer, is_speaking, silence_chunks_counter, chunk,
                 interrupts, captured>>
  /\ UNCHANGED notPipe

\* _on_interrupt, on the event loop, which is free whenever _loop waits for an
\* executor or worker thread: clear the transcriber, drain the queue
OnInterrupt ==
  /\ interrupts < MaxInterrupts
  /\ interrupts' = interrupts + 1
  /\ audio_buffer' = << >>
  /\ is_speaking' = FALSE
  /\ silence_chunks_counter' = 0
  /\ chunk_queue' = << >>
  /\ UNCHANGED <<loopPc, chunk, segment, sttPublished, captured>>
  /\ UNCHANGED notPipe

PipeNext ==
  \/ \E speech \in BOOLEAN : AudioCallback(speech)
  \/ BlockingGetChunk
  \/ TranscriberProcess
  \/ \E text \in {"", "text"} : SttTranscribe(text)
  \/ SttRaise
  \/ PublishSttReady
  \/ OnInterrupt

(* ============ MemoryCache beside RedisMemoryStorage =================== *)

Absent == [present |-> FALSE, list |-> << >>]
Stored(list) == [present |-> TRUE, list |-> list]

CacheInit ==
  /\ cacheKey = Absent
  /\ redisKey = Absent
  /\ cacheOut = << >>
  /\ redisOut = << >>
  /\ cacheOps = 0

\* LRANGE key start end: negative bounds count from the tail, a start before
\* the head is the head, an end past the tail is the tail, and a start past the
\* end or past the tail selects nothing
RedisRange(list, start, end) ==
  LET llen == Len(list)
      s0 == IF start < 0 THEN llen + start ELSE start
      e0 == IF end < 0 THEN llen + end ELSE end
      s1 == IF s0 < 0 THEN 0 ELSE s0
      e1 == IF e0 >= llen THEN llen - 1 ELSE e0
  IN  IF s1 > e0 \/ s1 >= llen THEN << >> ELSE SubSeq(list, s1 + 1, e1 + 1)

\* a Redis list that becomes empty is removed with its key
RedisStored(list) == IF list = << >> THEN Absent ELSE Stored(list)

Indexes == (0 - MaxIndex)..MaxIndex

\* add_message(key, message) on both backends
CacheAddMessage ==
  /\ cacheOps < MaxCacheOps
  /\ cacheOps' = cacheOps + 1
  /\ cacheKey' = Stored(Append(cacheKey.list, cacheOps + 1))
  /\ redisKey' = Stored(Append(redisKey.list, cacheOps + 1))
  /\ cacheOut' = << >>
  /\ redisOut' = << >>
  /\ UNCHANGED notCache

\* get_messages(key, start, end) on both backends
CacheGetMessages(start, end) ==
  /\ cacheOps < MaxCacheOps
  /\ cacheOps' = cacheOps + 1
  /\ cacheOut' = <<"messages",
                   IF cacheKey.present THEN GetMessages(cacheKey.list, start, end) ELSE << >>>>
  /\ redisOut' = <<"messages", RedisRange(redisKey.list, start, end)>>
  /\ UNCHANGED <<cacheKey, redisKey>>
  /\ UNCHANGED notCache

\* trim(key, start, end) on both backends
CacheTrim(start, end) ==
  /\ cacheOps < MaxCacheOps
  /\ cacheOps' = cacheOps + 1
  /\ cacheKey' = IF cacheKey.present THEN Stored(Trim(cacheKey.list, start, end))
                 ELSE cacheKey
  /\ redisKey' = RedisStored(RedisRange(redisKey.list, start, end))
  /\ cacheOut' = << >>
  /\ redisOut' = << >>
  /\ UNCHANGED notCache

\* delete(key) on both backends
CacheDelete ==
  /\ cacheOps < MaxCacheOps
  /\ cacheOps' = cacheOps + 1
  /\ cacheKey' = Absent
  /\ redisKey' = Absent
  /\ cacheOut' = << >>
  /\ redisOut' = << >>
  /\ UNCHANGED notCache

\* exists(key) on both backends
CacheExists ==
  /\ cacheOps < MaxCacheOps
  /\ cacheOps' = cacheOps + 1
  /\ cacheOut' = <<"exists", cacheKey.present>>
  /\ redisOut' = <<"exists", redisKey.present>>
  /\ UNCHANGED <<cacheKey, redisKey>>
  /\ UNCHANGED notCache

CacheNext ==
  \/ CacheAddMessage
  \/ \E start, end \in Indexes : CacheGetMessages(start, end)
  \/ \E start, end \in Indexes : CacheTrim(start, end)
  \/ CacheDelete
  \/ CacheExists

(* ============ PromptBuilder and the prompt of a turn ================== *)

\* history_limit = 20
history_limit == 20

\* the buffer before the turn: n turns, user and assistant taking turns
BufferOf(n) == [i \in 1..n |-> [role |-> IF i % 2 = 1 THEN "user" ELSE "Chino", id |-> i]]

\* a turn starts from a buffer, a user message ("" stands for an empty message
\* and for None), and what the two stores retrieve ("" when nothing)
NoPromptInput ==
  [kind |-> "none", buffer |-> << >>, user_message |-> "", mid |-> "", rel |-> ""]

PromptInputs ==
  {[kind |-> "user", buffer |-> BufferOf(n), user_message |-> m, mid |-> mid, rel |-> rel] :
     n \in 0..MaxHistory, m \in {"", "hello"}, mid \in {"", "summaries"},
     rel \in {"", "memories"}}
  \cup
  {[kind |-> "auto", buffer |-> BufferOf(n), user_message |-> "", mid |-> mid, rel |-> ""] :
     n \in 0..MaxHistory, mid \in {"", "summaries"}}

PromptInit(in) ==
  /\ promptIn = in
  /\ prompt_messages = << >>

System(content) == [role |-> "system", content |-> <<content>>]
UserSays(content) == [role |-> "user", content |-> <<content>>]

\* the segment build_prompt appends for a context turn
Rendered(turn) ==
  IF turn.role = "user"
  THEN [role |-> "user", content |-> <<"[User emotion]", turn.id>>]
  ELSE [role |-> "Chino", content |-> <<turn.id>>]

\* conversation_history[-history_limit:]
RecentHistory(conversation_history) == PySlice(conversation_history, 0 - history_limit,
                                               Len(conversation_history))

\* PromptBuilder.build_prompt
BuildPrompt(user_message, conversation_history, is_auto_trigger) ==
  LET recent_history == RecentHistory(conversation_history)
      head == <<System("prompt")>> \o [j \in 1..Len(recent_history) |-> Rendered(recent_history[j])]
  IN  IF is_auto_trigger /\ user_message = "" THEN Append(head, UserSays("[Auto-trigger]"))
      ELSE IF user_message # "" THEN Append(head, UserSays(user_message))
      ELSE head

\* list.insert(position, x), position counted from 0
Insert(list, position, x) ==
  LET p == Min(position, Len(list))
  IN  SubSeq(list, 1, p) \o <<x>> \o SubSeq(list, p + 1, Len(list))

\* process_user_message up to generate_and_parse: the user turn joins the
\* buffer, the context is read, the prompt is built, the summaries inserted
ProcessUserMessagePrompt ==
  /\ promptIn.kind = "user"
  /\ prompt_messages = << >>
  /\ LET conversation_history ==
           Append(promptIn.buffer, [role |-> "user", id |-> Len(promptIn.buffer) + 1])
         m0 == BuildPrompt(promptIn.user_message, conversation_history, FALSE)
         m1 == IF promptIn.mid # "" THEN Insert(m0, 1, System(promptIn.mid)) ELSE m0
         insert_position == IF promptIn.mid # "" THEN 2 ELSE 1
     IN  prompt_messages' = IF promptIn.rel # ""
                     THEN Insert(m1, insert_position, System(promptIn.rel)) ELSE m1
  /\ UNCHANGED promptIn
  /\ UNCHANGED notPrompt

\* auto_trigger_conversation up to generate_and_parse
AutoTriggerPrompt ==
  /\ promptIn.kind = "auto"
  /\ prompt_messages = << >>
  /\ LET m0 == BuildPrompt("", promptIn.buffer, TRUE)
     IN  prompt_messages' = IF promptIn.mid # "" THEN Insert(m0, 1, System(promptIn.mid)) ELSE m0
  /\ UNCHANGED promptIn
  /\ UNCHANGED notPrompt

PromptNext ==
  \/ ProcessUserMessagePrompt
  \/ AutoTriggerPrompt

(* ================= sessions of the ShortTermMemory ==================== *)

\* the key "default" is used while there is no session
SessionKeys == {None} \cup (0..MaxClock)

SessInit ==
  /\ current_session_id = None
  /\ storage = [k \in SessionKeys |-> << >>]
  /\ clock = 0
  /\ sessOps = 0
  /\ sLast = [op |-> "none", prev |-> None, ret |-> None]


\* f"session_{int(datetime.now().timestamp())}": one id per second
GenerateSessionId == clock

\* self.current_session_id or "default"
GetSessionKey == current_session_id

\* get_recent_messages(): the whole list of the current session key
GetRecentMessages == storage[GetSessionKey]

\* add_user_message / add_chino_response: start a session when there is none,
\* then add_message and trim on the session key
SessAddMessage ==
  /\ sessOps < MaxSessOps
  /\ LET id == IF current_session_id = None THEN GenerateSessionId ELSE current_session_id
     IN  /\ current_session_id' = id
         /\ storage' = [storage EXCEPT ![id] = StmAdd(@, sessOps + 1)]
         /\ sLast' = [op |-> "add", prev |-> current_session_id, ret |-> sessOps + 1]
  /\ sessOps' = sessOps + 1
  /\ UNCHANGED <<clock, notSess>>

\* clear(): delete the session key if there is a session, then forget the session
Clear ==
  /\ sessOps < MaxSessOps
  /\ storage' = IF current_session_id # None
                THEN [storage EXCEPT ![GetSessionKey] = << >>]
                ELSE storage
  /\ current_session_id' = None
  /\ sLast' = [op |-> "clear", prev |-> current_session_id, ret |-> None]
  /\ sessOps' = sessOps + 1
  /\ UNCHANGED <<clock, notSess>>

\* start_new_session(): the new id is generated from the clock
StartNewSession ==
  /\ sessOps < MaxSessOps
  /\ current_session_id' = GenerateSessionId
  /\ sLast' = [op |-> "start_new_session", prev |-> current_session_id, ret |-> GenerateSessionId]
  /\ sessOps' = sessOps + 1
  /\ UNCHANGED <<storage, clock, notSess>>

\* a second passes
ClockAdvance ==
  /\ clock < MaxClock
  /\ clock' = clock + 1
  /\ UNCHANGED <<current_session_id, storage, sessOps, sLast, notSess>>

SessNext ==
  \/ SessAddMessage
  \/ Clear
  \/ StartNewSession
  \/ ClockAdvance


(* ============ SentenceFIFO objects and lane consumers ================= *)

Lanes == 0..(MaxSlots - 1)

IdleWaiter == [state |-> "idle", fifo |-> 0, got |-> << >>]

\* TokenRouter.__init__: one SentenceFIFO per lane
WaitInit ==
  /\ fifoCount = MaxSlots
  /\ fifoOf = [s \in Lanes |-> s + 1]
  /\ fifoQueue = [f \in 1..MaxSlots |-> << >>]
  /\ waiter = [s \in Lanes |-> IdleWaiter]
  /\ laneOps = 0


\* self._slots = [SentenceFIFO(i) for i in range(self.num_slots)]: new objects,
\* each with a new asyncio.Queue
NewFifos == [s \in Lanes |-> fifoCount + s + 1]

\* the consumer task of a lane, a loop around wait_next(slot_id):
\*   idle: self._slots[slot_id] is looked up and the consumer awaits that
\*         object's _queue.get(), which returns the head if there is one;
\*   blocked: a put on the queue it awaits wakes it, get() returns the head;
\*   given: it has processed its sentence and loops
Consumer(slot_id) ==
  /\ LET w == waiter[slot_id]
         f == IF w.state = "idle" THEN fifoOf[slot_id] ELSE w.fifo
     IN  CASE w.state = "given" ->
                /\ waiter' = [waiter EXCEPT ![slot_id] = IdleWaiter]
                /\ UNCHANGED fifoQueue
           [] w.state # "given" /\ fifoQueue[f] # << >> ->
                /\ waiter' = [waiter EXCEPT ![slot_id] =
                                [state |-> "given", fifo |-> f, got |-> <<Head(fifoQueue[f])>>]]
                /\ fifoQueue' = [fifoQueue EXCEPT ![f] = Tail(@)]
           [] w.state = "idle" /\ fifoQueue[f] = << >> ->
                /\ waiter' = [waiter EXCEPT ![slot_id] =
                                [state |-> "blocked", fifo |-> f, got |-> << >>]]
                /\ UNCHANGED fifoQueue
           [] OTHER -> FALSE
  /\ UNCHANGED <<fifoCount, fifoOf, laneOps>>
  /\ UNCHANGED notWait

\* reset(), as the interrupt handler calls it: every lane gets a new object
LanesReset ==
  /\ laneOps < MaxRoutes
  /\ laneOps' = laneOps + 1
  /\ fifoOf' = NewFifos
  /\ fifoCount' = fifoCount + MaxSlots
  /\ fifoQueue' = [f \in 1..(fifoCount + MaxSlots) |->
                     IF f <= fifoCount THEN fifoQueue[f] ELSE << >>]
  /\ UNCHANGED waiter
  /\ UNCHANGED notWait

\* the sentences route_sentences enqueues on the object of lane s
RECURSIVE LaneSentences(_, _, _, _)
LaneSentences(s, i, n, call) ==
  IF i >= n THEN << >>
  ELSE IF i % MaxSlots = s
       THEN <<[response |-> call, index |-> i]>> \o LaneSentences(s, i + 1, n, call)
       ELSE LaneSentences(s, i + 1, n, call)

\* route_sentences(sentences) with n sentences: reset(), then every sentence
\* is put on the queue of the object its lane holds now
LanesRoute(n) ==
  /\ laneOps < MaxRoutes
  /\ laneOps' = laneOps + 1
  /\ fifoOf' = NewFifos
  /\ fifoCount' = fifoCount + MaxSlots
  /\ fifoQueue' = [f \in 1..(fifoCount + MaxSlots) |->
                     IF f <= fifoCount THEN fifoQueue[f]
                     ELSE LaneSentences(f - fifoCount - 1, 0, n, laneOps + 1)]
  /\ UNCHANGED waiter
  /\ UNCHANGED notWait

WaitStep ==
  \/ \E s \in Lanes : Consumer(s)
  \/ LanesReset
  \/ \E n \in 1..MaxSentences : LanesRoute(n)


(* ============ the watchdog loop tasks of the orchestrator ============= *)

LoopTasks == 1..MaxStarts

WdTaskInit ==
  /\ auto_trigger_task = None
  /\ taskState = [t \in LoopTasks |-> "unborn"]
  /\ tasksCreated = 0
  /\ autoTurns = 0
  /\ stopRequested = FALSE
  /\ wdCalls = 0


\* Task.done(): a task whose cancellation was requested is not done until the
\* event loop has thrown CancelledError into it
TaskDoneOnCancel(state) == state \in {"cancelling", "cancelled"}

TaskDone(state) == state = "cancelled"

\* the loop tasks that have not ended
LiveTasks == {t \in LoopTasks : taskState[t] \in {"sleeping", "cancelling"}}

\* start_auto_trigger: create a loop task if there is none or it is done
StartAutoTriggerCall ==
  /\ wdCalls < MaxWdCalls
  /\ wdCalls' = wdCalls + 1
  /\ stopRequested' = FALSE
  /\ IF auto_trigger_task = None \/ TaskDone(taskState[auto_trigger_task])
     THEN /\ tasksCreated < MaxStarts
          /\ tasksCreated' = tasksCreated + 1
          /\ auto_trigger_task' = tasksCreated + 1
          /\ taskState' = [taskState EXCEPT ![tasksCreated + 1] = "sleeping"]
     ELSE UNCHANGED <<auto_trigger_task, taskState, tasksCreated>>
  /\ UNCHANGED autoTurns
  /\ UNCHANGED notWdTask

\* stop_auto_trigger: cancel the task if there is one and it is not done
StopAutoTriggerCall ==
  /\ wdCalls < MaxWdCalls
  /\ wdCalls' = wdCalls + 1
  /\ stopRequested' = TRUE
  /\ IF auto_trigger_task # None /\ ~TaskDone(taskState[auto_trigger_task])
     THEN taskState' = [taskState EXCEPT ![auto_trigger_task] = "cancelling"]
     ELSE UNCHANGED taskState
  /\ UNCHANGED <<auto_trigger_task, tasksCreated, autoTurns>>
  /\ UNCHANGED notWdTask

\* the event loop resumes a cancelled task with CancelledError: the loop
\* breaks and the task is done
CancelDelivered(t) ==
  /\ taskState[t] = "cancelling"
  /\ taskState' = [taskState EXCEPT ![t] = "cancelled"]
  /\ UNCHANGED <<auto_trigger_task, tasksCreated, autoTurns, stopRequested, wdCalls>>
  /\ UNCHANGED notWdTask

\* a loop task wakes from asyncio.sleep(5), finds the orchestrator idle and runs
\* auto_trigger_conversation, which has no suspension point, then sleeps again
AutoTurn(t) ==
  /\ taskState[t] = "sleeping"
  /\ autoTurns < MaxAutoTurns
  /\ autoTurns' = autoTurns + 1
  /\ UNCHANGED <<auto_trigger_task, taskState, tasksCreated, stopRequested, wdCalls>>
  /\ UNCHANGED notWdTask

WdTaskNext ==
  \/ StartAutoTriggerCall
  \/ StopAutoTriggerCall
  \/ \E t \in LoopTasks : CancelDelivered(t)
  \/ \E t \in LoopTasks : AutoTurn(t)


(* ===================== TTS TokenRouter ================================ *)

\* the labels the label selector gives: one queue per label
Labels == {"a", "b"}

TtsInit ==
  /\ queues = [l \in Labels |-> << >>]
  /\ next_sequence_id = 0
  /\ batches = << >>
  /\ collectPc = "idle"
  /\ collecting = 0
  /\ tts_buffer = {}
  /\ next_id = 0
  /\ out = << >>
  /\ returnedIds = {}

OtherInit == SessInit /\ WaitInit /\ WdTaskInit /\ TtsInit

\* the queue of a label after route has put the sentences of a call on it:
\* sentence i of the call gets sequence id first + i - 1
RECURSIVE PutAll(_, _, _, _, _)
PutAll(q, l, labels, first, i) ==
  IF i > Len(labels) THEN q
  ELSE PutAll(IF labels[i] = l THEN Append(q, first + i - 1) ELSE q, l, labels, first, i + 1)

\* route(sentences, label_selector=...): labels[i] is the label of sentence i
Route(labels) ==
  /\ Len(batches) < MaxTtsRoutes
  /\ next_sequence_id + Len(labels) <= MaxIds
  /\ queues' = [l \in Labels |-> PutAll(queues[l], l, labels, next_sequence_id, 1)]
  /\ next_sequence_id' = next_sequence_id + Len(labels)
  /\ batches' = Append(batches, [start |-> next_sequence_id, count |-> Len(labels)])
  /\ UNCHANGED <<collectPc, collecting, tts_buffer, next_id, out, returnedIds>>
  /\ UNCHANGED notTts

\* while next_id in buffer and len(out) < expected_count: out.append(buffer.pop(next_id))
RECURSIVE Flush(_, _, _, _)
Flush(buf0, nid, o, expected_count) ==
  IF nid \in buf0 /\ Len(o) < expected_count
  THEN Flush(buf0 \ {nid}, nid + 1, Append(o, nid), expected_count)
  ELSE [buffer |-> buf0, next_id |-> nid, out |-> o]

\* collect_in_order(queues, expected_count=count, start_sequence_id=start) is
\* called for the next batch, which has been routed: up to the first asyncio.wait
CollectInOrder ==
  /\ collectPc \in {"idle", "returned"}
  /\ collecting < Len(batches)
  /\ collecting' = collecting + 1
  /\ tts_buffer' = {}
  /\ next_id' = batches[collecting + 1].start
  /\ out' = << >>
  /\ collectPc' = IF batches[collecting + 1].count <= 0 THEN "returned" ELSE "waiting"
  /\ UNCHANGED <<queues, next_sequence_id, batches, returnedIds>>
  /\ UNCHANGED notTts

\* asyncio.wait returns: every q.get() whose queue has an item is done and has
\* taken the head, the other get tasks are cancelled; the items go to the
\* buffer, the buffer is flushed, and the call returns when out is complete
CollectWaitReturns ==
  /\ collectPc = "waiting"
  /\ \E l \in Labels : queues[l] # << >>
  /\ LET done == {l \in Labels : queues[l] # << >>}
         f == Flush(tts_buffer \cup {Head(queues[l]) : l \in done}, next_id, out,
                    batches[collecting].count)
     IN  /\ queues' = [l \in Labels |-> IF l \in done THEN Tail(queues[l]) ELSE queues[l]]
         /\ tts_buffer' = f.buffer
         /\ next_id' = f.next_id
         /\ out' = f.out
         /\ IF Len(f.out) < batches[collecting].count
            THEN collectPc' = "waiting" /\ UNCHANGED returnedIds
            ELSE /\ collectPc' = "returned"
                 /\ returnedIds' = returnedIds \cup {f.out[k] : k \in 1..Len(f.out)}
  /\ UNCHANGED <<next_sequence_id, batches, collecting>>
  /\ UNCHANGED notTts

TtsNext ==
  \/ \E labels \in SeqsUpTo(Labels, MaxBatch) : Route(labels)
  \/ CollectInOrder
  \/ CollectWaitReturns


(* ======================== specifications ============================== *)

vars == <<routerVars, busVars, memVars, orchVars, pipeVars, cacheVars, promptVars, otherVars>>

InitRouter ==
  (\E k \in 1..MaxSlots : RouterInit(k)) /\ BusInit /\ MemInit(MaxCap) /\ OrchInit(MaxIdle) /\ PipeInit(0) /\ CacheInit /\ PromptInit(NoPromptInput) /\ OtherInit

SpecRouter ==
  /\ InitRouter
  /\ [][RouterNext]_vars

Init ==
  RouterInit(MaxSlots) /\ BusInit /\ MemInit(MaxCap) /\ OrchInit(MaxIdle) /\ PipeInit(0) /\ CacheInit /\ PromptInit(NoPromptInput) /\ OtherInit

SpecBus ==
  /\ Init
  /\ [][BusNext]_vars

InitMem ==
  RouterInit(MaxSlots) /\ BusInit /\ (\E cap \in 0..MaxCap : MemInit(cap)) /\ OrchInit(MaxIdle) /\ PipeInit(0) /\ CacheInit /\ PromptInit(NoPromptInput) /\ OtherInit

InitNested ==
  /\ RouterInit(MaxSlots) /\ MemInit(MaxCap) /\ OrchInit(MaxIdle) /\ PipeInit(0) /\ CacheInit /\ PromptInit(NoPromptInput) /\ OtherInit
  /\ \E table \in ChainTables :
       BusInitWired(table, IF Wildcard \in DOMAIN table THEN 5 ELSE 4)

SpecNested ==
  /\ InitNested
  /\ [][NestedNext]_vars

\* a bus on which one component subscribed while it was constructed
InitTable ==
  /\ RouterInit(MaxSlots) /\ MemInit(MaxCap) /\ OrchInit(MaxIdle) /\ PipeInit(0) /\ CacheInit /\ PromptInit(NoPromptInput) /\ OtherInit
  /\ \E e \in SubscribedTypes, h \in Handlers, p \in Priorities :
       BusInitWired(SubscribeTable([x \in {} |-> << >>], e, Sub(h, p, 0)), 0)

SpecTable ==
  /\ InitTable
  /\ [][TableNext]_vars

InitMidPublish ==
  /\ RouterInit(MaxSlots) /\ MemInit(MaxCap) /\ OrchInit(MaxIdle) /\ PipeInit(0) /\ CacheInit /\ PromptInit(NoPromptInput) /\ OtherInit
  /\ BusInitWired(PairTable, 0)

SpecMidPublish ==
  /\ InitMidPublish
  /\ [][MidPublishNext]_vars

InitPipe ==
  /\ RouterInit(MaxSlots) /\ BusInit /\ MemInit(MaxCap) /\ (\E t \in IdleTimeouts : OrchInit(t))
  /\ \E backlog \in Backlogs : PipeInit(backlog)
  /\ CacheInit /\ PromptInit(NoPromptInput) /\ OtherInit

SpecPipe ==
  /\ InitPipe
  /\ [][PipeNext]_vars

SpecCache ==
  /\ Init
  /\ [][CacheNext]_vars

SpecLanes ==
  /\ InitRouter
  /\ [][LanesNext]_vars

InitPrompt ==
  /\ RouterInit(MaxSlots) /\ BusInit /\ MemInit(MaxCap) /\ OrchInit(MaxIdle)
  /\ PipeInit(0) /\ CacheInit
  /\ \E in \in PromptInputs : PromptInit(in)
  /\ OtherInit

SpecPrompt ==
  /\ InitPrompt
  /\ [][PromptNext]_vars

SpecWild ==
  /\ Init
  /\ [][WildNext]_vars

SpecMem ==
  /\ InitMem
  /\ [][MemNext]_vars

\* the Memory Manager over a buffer of the largest size
InitTurns ==
  RouterInit(MaxSlots) /\ BusInit /\ MemInit(MaxCap) /\ OrchInit(MaxIdle) /\ PipeInit(0) /\ CacheInit /\ PromptInit(NoPromptInput) /\ OtherInit

SpecTurns ==
  /\ InitTurns
  /\ [][MemNext]_vars

SpecSess ==
  /\ Init
  /\ [][SessNext]_vars

SpecWait ==
  /\ Init
  /\ [][WaitStep]_vars

SpecWdTask ==
  /\ Init
  /\ [][WdTaskNext]_vars

SpecTts ==
  /\ Init
  /\ [][TtsNext]_vars

\* the event loop resumes collect_in_order when a get task is done
FairSpecTts ==
  /\ SpecTts
  /\ WF_vars(CollectWaitReturns)

\* the event loop runs every consumer that can take a step
FairSpecWait ==
  /\ SpecWait
  /\ \A s \in Lanes : WF_vars(Consumer(s))

InitOrch ==
  RouterInit(MaxSlots) /\ BusInit /\ MemInit(MaxCap) /\ (\E t \in IdleTimeouts : OrchInit(t)) /\ PipeInit(0) /\ CacheInit /\ PromptInit(NoPromptInput) /\ OtherInit

SpecOrch ==
  /\ InitOrch
  /\ [][OrchNext]_vars

SpecInterrupt ==
  /\ InitOrch
  /\ [][InterruptNext]_vars

SpecMemFull ==
  /\ InitMem
  /\ [][MemFullNext]_vars

\* the event loop runs every task that is ready, and the summarizer thread ends
FairSpecMemFull ==
  /\ SpecMemFull
  /\ WF_vars(MemFullNext)

\* the event loop runs every scheduled coroutine, and a model call ends
FairSpecOrch ==
  /\ SpecOrch
  /\ WF_vars(\E c \in Calls : BeginTurn(c))
  /\ WF_vars(\E t \in Tasks : LlmFinish(t))


(* ============================ claims ================================== *)

\* C3: once every index of the routed reply has been passed to mark_completed
\* exactly once (a permutation of [0,N), lane dequeues interleaved at will),
\* build_ordered_response() is the routed reply, in the original order.
C3_OrderIndependence ==
  (total > 0 /\ markCount = total /\ marked = 0..(total - 1))
    => BuildOrderedResponse = routed

\* C4: mark_completed(i) returns False and changes nothing when i is not an index
\* of the routed reply, and returns False whenever an earlier call for the same
\* index was accepted.
C4_RejectsUnknownAndDouble ==
  rLast.op = "mark_completed" =>
    /\ (rLast.arg \notin DOMAIN all_sentences => ~rLast.ret /\ ~rLast.changed)
    /\ (rLast.dup => ~rLast.ret)


\* C5: in one publish the handlers start in priority order, and handlers of
\* equal priority start in registration order, over the merged set of
\* type-specific and wildcard handlers.
C5_PriorityThenRegistration ==
  \A i, j \in 1..Len(startTrace) :
    i < j => \/ startTrace[i].priority < startTrace[j].priority
             \/ /\ startTrace[i].priority = startTrace[j].priority
                /\ startTrace[i].reg < startTrace[j].reg

\* C6: a handler that raises an Exception does not reach the publisher (only a
\* cancellation is handed on), and a publish that returns has run every handler
\* it invoked to completion or failure and returns their number.
C6_HandlerIsolation ==
  /\ pub.state = "raised" =>
       \E j \in 1..Len(pub.hstate) : pub.hstate[j] = "cancelled"
  /\ pub.state = "returned" =>
       /\ pub.ret = Len(pub.handlers)
       /\ Len(startTrace) = Len(pub.handlers)
       /\ \A j \in 1..Len(pub.handlers) : pub.hstate[j] \in Finished

\* a publish returned although a handler failed before a sibling completed
C6_Witness ==
  /\ pub.state = "returned"
  /\ \E j, k \in 1..Len(pub.hstate) :
       j < k /\ pub.hstate[j] = "failed" /\ pub.hstate[k] = "done"

\* C7: right after a successful compression of a snapshot, the buffer holds
\* exactly the turns appended after the snapshot was taken, in order, and
\* exactly one persisted summary references the snapshot.
C7_CompressionTrimsSnapshot ==
  mLast.op = "compressed" =>
    /\ buf = after[mLast.task]
    /\ Cardinality({i \in 1..Len(summaries) : summaries[i].turns = snap[mLast.task]}) = 1

\* C8: after every add_user_message / add_chino_response the buffer holds at
\* most max_size turns, and they are the most recently appended ones in order.
C8_BoundedBuffer ==
  mLast.op \in {"add_user", "add_chino"} =>
    /\ Len(buf) <= max_size
    /\ buf = SubSeq(appended, Len(appended) - Len(buf) + 1, Len(appended))

\* C1: no turn gathers its context while another turn is between its context
\* read and the saving of its result: at most one turn is in flight.
C1_OneTurnInFlight ==
  \A a, b \in Tasks : (a # b /\ InFlight(a)) => ~InFlight(b)

\* a call made while another turn was in flight has begun its own turn
C1_Witness ==
  \E c \in Calls : queuedDuring[c] /\ pc[c] = "llm"

\* C2: a turn whose model call was in flight when an interrupt arrived saves no
\* assistant turn and hands no result to its caller.
C2_InterruptSuppressesResult ==
  \A c \in Calls :
    (interruptedDuring[c] /\ pc[c] # "llm") => (savedFor[c] = 0 /\ result[c] # "responses")

\* C9: a call made while another turn is in flight is not interleaved with it,
\* and eventually completes a turn of its own.
C9_QueuedCallRuns ==
  /\ [](\A c \in Calls : ~overlap[c])
  /\ \A c \in Calls :
       (pc[c] = "queued" /\ queuedDuring[c]) ~> (pc[c] \in {"returned", "raised"})

\* a call made while another turn was in flight returned its own responses
C9_Witness ==
  \E c \in Calls : queuedDuring[c] /\ pc[c] = "returned" /\ result[c] = "responses"

\* C10: when the model call raises in process_user_message the caller gets the
\* exception and is_processing is false; in an auto-triggered turn the failure is
\* contained ([] returned), is_processing is false and the watchdog sleeps on.
C10_FailureHandling ==
  /\ [](\A c \in Calls : pc[c] = "raised" => (result[c] = "exception" /\ ~InFlight(c)))
  /\ [](running = None => ~is_processing)
  /\ [][(wdPc = "llm" /\ wdPc' # "llm" /\ wdResult' = "empty")
          => (~is_processing' /\ wdPc' = "sleeping" /\ running' = None)]_vars

\* both failures have happened: a call raised, and an auto-triggered turn failed
C10_Witness ==
  /\ \E c \in Calls : pc[c] = "raised"
  /\ wdResult = "empty"
  /\ wdPc = "sleeping"

\* C11: for a routed reply of N >= 1 sentences the all-completed condition
\* (is_all_completed, and the event wait_until_done awaits) is true exactly when
\* every index of [0,N) has been passed to mark_completed: not earlier, and from
\* that moment on, so that it becomes true once per reply and wait_until_done
\* then returns True.
C11_AllCompletedOnce ==
  total > 0 =>
    /\ IsAllCompleted(completed, total) <=> (0..(total - 1)) \subseteq marked
    /\ WaitUntilDone <=> (0..(total - 1)) \subseteq marked

\* C12: in every publish call, whatever the type string published, each
\* subscription to the wildcard type "*" has its handler called exactly once,
\* and the call receives the published event name.
C12_WildcardOnce ==
  (pub.state = "running" /\ pub.started = Len(pub.handlers)) =>
    \A k \in 1..Len(SubsGet(Wildcard)) :
      LET calls == {i \in 1..Len(startTrace) : startTrace[i].reg = SubsGet(Wildcard)[k].reg}
      IN  /\ Cardinality(calls) = 1
          /\ \A i \in calls : startTrace[i].event = pub.event

C14_DeliveryDuringModelCall ==
  (interruptPending /\ \E t \in Tasks : InFlight(t)) => ENABLED DeliverInterrupt

\* C15: the Memory Manager's handling of response_ready delays neither the
\* publisher nor the next turn: while the compression a save triggered is still
\* running (waiting for the lock, or summarizing) the publish call that
\* delivered response_ready can return, and a new turn's save can start.
C15_SaveIsFireAndForget ==
  \A r \in Saves :
    Snapshotted(r) =>
      /\ ENABLED ResponsePublishReturn(r)
      /\ turnCount < MaxTurns => ENABLED OnSttReady

\* C16: compression never deadlocks: a compression that holds the compression
\* lock eventually releases it, whatever the handlers of memory_full do, and
\* no save waits for the lock forever.
C16_CompressionLockReleased ==
  \A r \in Saves :
    /\ (lockHolder = r) ~> (lockHolder # r)
    /\ (savePc[r] = "waitlock") ~> (savePc[r] # "waitlock")

\* C17: a publish call returns only after every handler it invoked has
\* completed or failed; when one of its handlers published and awaited a second
\* event, every handler of that second publish has completed or failed, and the
\* second publish has returned, before the outer publish returns.
C17_PublishWaitsForHandlers ==
  pub.state = "returned" =>
    /\ pub.started = Len(pub.handlers)
    /\ \A j \in 1..Len(pub.hstate) : pub.hstate[j] \in Finished
    /\ inner.state # "idle" =>
         /\ inner.state = "returned"
         /\ inner.started = Len(inner.handlers)
         /\ \A j \in 1..Len(inner.hstate) : inner.hstate[j] \in Finished

\* the outer publish returned after a nested publish whose handler had run
C17_Witness ==
  /\ pub.state = "returned"
  /\ inner.state = "returned"
  /\ Len(inner.handlers) >= 2
  /\ pub.event # inner.event
  /\ \E j \in 1..Len(inner.hstate) : inner.hstate[j] = "failed"

\* C18: within one publish a handler that is suspended at an await does not
\* keep a later handler from starting: while handlers remain to be started
\* the next one can start whatever state the earlier ones are in, the handlers
\* start in the order of the sorted list, which is by priority, and a publish
\* that ended has started every one of them.
C18_SuspensionDoesNotBlockStart ==
  /\ (pub.state = "running" /\ pub.started < Len(pub.handlers)) =>
       ENABLED StartHandler("ok")
  /\ pub.state \in {"running", "returned", "raised"} =>
       /\ Len(startTrace) = pub.started
       /\ \A i \in 1..pub.started :
            startTrace[i] = HandlerCall(pub.handlers[i], pub.event)
       /\ \A i, j \in 1..pub.started :
            i < j => startTrace[i].priority <= startTrace[j].priority
  /\ pub.state \in {"returned", "raised"} => pub.started = Len(pub.handlers)

\* a handler of lower priority started while a handler of higher priority
\* was still suspended
C18_Witness ==
  /\ pub.state = "running"
  /\ pub.started >= 2
  /\ pub.hstate[1] = "suspended"
  /\ pub.hstate[2] # "created"
  /\ startTrace[1].priority < startTrace[2].priority

\* is the handler subscribed to the event type?
Registered(event, handler) ==
  \E i \in 1..Len(SubsGet(event)) : SubsGet(event)[i].handler = handler

\* C19: unsubscribe for a handler or an event type that is not registered
\* returns False and leaves the subscriber table as it was; after any
\* unsubscribe the handler is not registered for the type, so a second
\* unsubscribe of the same handler is such a call; unsubscribe always returns
\* a boolean.
C19_UnsubscribeUnregistered ==
  /\ [](bLast.op = "unsubscribe" =>
          /\ bLast.ret \in BOOLEAN
          /\ ~Registered(bLast.event, bLast.handler))
  /\ [][(bLast'.op = "unsubscribe" /\ ~Registered(bLast'.event, bLast'.handler))
          => (bLast'.ret = FALSE /\ subscribers' = subscribers)]_vars

\* an unsubscribe of a handler that is not registered under a type that has
\* subscribers returned False
C19_Witness ==
  /\ bLast.op = "unsubscribe"
  /\ bLast.ret = FALSE
  /\ bLast.event \in DOMAIN subscribers

\* the registration numbers of the subscriptions of an owner in a table
RegsOwnedBy(tbl, owner) ==
  {tbl[e][i].reg : <<e, i>> \in {<<e, i>> \in (DOMAIN tbl) \X (1..(MaxSubs + 5)) :
                                  i <= Len(tbl[e]) /\ tbl[e][i].owner = owner}}

\* C20: unsubscribe_all(owner) leaves no subscription of that owner under any
\* event type, the wildcard included, returns the number of subscriptions it
\* removed, and leaves under every type the other subscriptions in the
\* order they had; types left without a subscription are dropped.
C20_UnsubscribeAllByOwner ==
  [][bLast'.op = "unsubscribe_all" =>
       /\ RegsOwnedBy(subscribers', bLast'.owner) = {}
       /\ bLast'.ret = Cardinality(RegsOwnedBy(subscribers, bLast'.owner))
       /\ DOMAIN subscribers' \subseteq DOMAIN subscribers
       /\ \A e \in DOMAIN subscribers :
            LET rest == SelectSeq(subscribers[e], LAMBDA s : s.owner # bLast'.owner)
            IN  IF rest = << >> THEN e \notin DOMAIN subscribers'
                ELSE e \in DOMAIN subscribers' /\ subscribers'[e] = rest]_vars

\* subscriptions of an owner were removed and two subscriptions of other
\* owners stayed under one event type
C20_Witness ==
  /\ bLast.op = "unsubscribe_all"
  /\ bLast.ret >= 1
  /\ \E e \in DOMAIN subscribers : Len(subscribers[e]) >= 2

\* C21: after n publish calls, with or without subscribers, the history holds
\* the last min(n, max_history) published events in publish order and is
\* never longer than max_history.
C21_HistoryHoldsEveryPublish ==
  /\ Len(history) <= max_history
  /\ Len(history) = (IF pubCount < max_history THEN pubCount ELSE max_history)
  /\ (pubCount >= 1 /\ pub.state # "idle") => history[Len(history)] = pub.event

\* a turn (process_user_message or auto_trigger_conversation) ends in this step
TurnFinishes ==
  \/ \E c \in Calls : pc[c] = "llm" /\ pc'[c] \in {"returned", "raised"}
  \/ wdPc = "llm" /\ wdPc' # "llm"

\* C22: the watchdog starts an auto-triggered turn only when no turn is in
\* flight and at least idle_timeout has passed since the last interaction, and
\* every step that finishes a turn, by a return or by a failure, resets the
\* last-interaction time to the time of the finish.
C22_WatchdogIdleOnly ==
  [][/\ (wdPc # "llm" /\ wdPc' = "llm") =>
          /\ ~is_processing
          /\ \A t \in Tasks : ~InFlight(t)
          /\ now - last_interaction_time >= idle_timeout
     /\ TurnFinishes => last_interaction_time' = now']_vars

\* C23: once the pipeline's interrupt handler has run, no speech_ready event
\* is published for audio captured before that interrupt: every published
\* utterance consists of chunks captured after the last interrupt handled
\* before the publish.
C23_InterruptDropsEarlierAudio ==
  \A i \in 1..Len(sttPublished) :
    \A j \in 1..Len(sttPublished[i].audio) :
      sttPublished[i].audio[j].ep >= sttPublished[i].interrupts

\* C24: a run of the audio callback leaves a queue of maxsize chunks as it
\* is and otherwise appends the chunk at the tail; the callback can always
\* run; the queue never holds more than maxsize chunks.
C24_CaptureNeverBlocks ==
  /\ [](Len(chunk_queue) <= maxsize)
  /\ [](captured < MaxCaptures => ENABLED AudioCallback(TRUE))
  /\ [][captured' # captured =>
          IF Len(chunk_queue) >= maxsize
          THEN chunk_queue' = chunk_queue
          ELSE /\ Len(chunk_queue') = Len(chunk_queue) + 1
               /\ SubSeq(chunk_queue', 1, Len(chunk_queue)) = chunk_queue
               /\ chunk_queue'[Len(chunk_queue')].ep = interrupts]_vars

\* the callback ran on a full queue
C24_Witness ==
  /\ Len(chunk_queue) = maxsize
  /\ captured >= 2

\* C25: for the same sequence of append, range-read, trim, delete and exists
\* operations, with any start and end, the MemoryCache and the Redis backend
\* return the same results.
C25_CacheMatchesRedis == cacheOut = redisOut

\* C26: get_completed_up_to() is the routed reply's sentences 0..k-1 in
\* order, k being the smallest index of [0,N) not yet marked completed (N
\* when all are marked); in particular it is a prefix of the reply.
C26_ContiguousPrefix ==
  GetCompletedUpTo = SubSeq(routed, 1, FirstUnmarked)

\* the indices of the routed reply that belong to lane s, in increasing order
LaneIndices(s) == SortedIdx({i \in 0..(total - 1) : i % num_slots = s})

\* C27: route_sentences puts the sentence with index i on lane i mod K, in
\* increasing index order; a lane always holds a suffix of its indices, all
\* not handed out yet, and get_next / wait_next hands out the smallest of them
\* and removes it, so each sentence is handed out once, in index order.
C27_RoundRobinLanes ==
  /\ [](\A s \in 0..(num_slots - 1) :
          LET q == slots[s].queue
              all == LaneIndices(s)
          IN  /\ Len(q) <= Len(all)
              /\ q = SubSeq(all, Len(all) - Len(q) + 1, Len(all))
              /\ \A j \in 1..Len(q) : all_sentences[q[j]].status = PENDING
              /\ rLast.op = "route" => q = all)
  /\ [][(rLast'.op = "get_next" /\ rLast' # rLast) =>
          LET idx == rLast'.arg
              s == idx % num_slots
          IN  /\ slots[s].queue # << >>
              /\ idx = Head(slots[s].queue)
              /\ slots'[s].queue = Tail(slots[s].queue)
              /\ slots'[s].current = idx
              /\ \A u \in 0..(num_slots - 1) : u # s => slots'[u] = slots[u]]_vars

\* with two lanes and three sentences, lane 0 handed out sentence 2 after
\* sentence 0 and lane 1 still holds sentence 1
C27_Witness ==
  /\ num_slots = 2
  /\ total = 3
  /\ rLast.op = "get_next"
  /\ rLast.arg = 2
  /\ slots[1].queue = <<1>>

\* C28: when route_sentences returns, the router tracks exactly the indices
\* 0..N-1 of the reply just routed, each pending, carrying its sentence and the
\* reply's response id, and the completed map, the lanes' current sentences
\* and the all-completed signal hold nothing of an earlier reply; after reset()
\* the router tracks no sentence, and a mark_completed that follows it
\* returns False and changes nothing.
C28_RouteReplacesReply ==
  /\ [](rLast.op = "route" =>
          /\ total = Len(routed)
          /\ DOMAIN all_sentences = 0..(total - 1)
          /\ response_id = routeCount
          /\ \A i \in 0..(total - 1) :
               all_sentences[i] = [data |-> routed[i + 1], status |-> PENDING,
                                   response_id |-> response_id]
          /\ completed = {}
          /\ ~finished_event
          /\ \A s \in 0..(num_slots - 1) :
               slots[s].current = None /\ slots[s].queue = LaneIndices(s))
  /\ [](rLast.op = "reset" =>
          /\ DOMAIN all_sentences = {}
          /\ total = 0
          /\ completed = {}
          /\ ~finished_event
          /\ \A s \in 0..(num_slots - 1) : slots[s] = EmptySlot)
  /\ [][(rLast.op = "reset" /\ rLast'.op = "mark_completed") =>
          (~rLast'.ret /\ all_sentences' = all_sentences /\ completed' = completed
             /\ slots' = slots /\ finished_event' = finished_event)]_vars

\* a second reply was routed
C28_Witness ==
  /\ rLast.op = "route"
  /\ routeCount = 2
  /\ total >= 2

PromptContext ==
  IF promptIn.kind = "user"
  THEN Append(promptIn.buffer, [role |-> "user", id |-> Len(promptIn.buffer) + 1])
  ELSE promptIn.buffer

\* the summaries a turn retrieved, in the order they are inserted
PromptSummaries ==
  (IF promptIn.mid # "" THEN <<System(promptIn.mid)>> ELSE << >>)
    \o (IF promptIn.rel # "" THEN <<System(promptIn.rel)>> ELSE << >>)

\* system instructions, summaries, the last history_limit context turns, and
\* the closing user segment
PromptInOrder ==
  LET k == Len(PromptSummaries)
      h == PromptContext
      c == Min(history_limit, Len(h))
  IN  /\ Len(prompt_messages) = 1 + k + c + 1
      /\ prompt_messages[1] = System("prompt")
      /\ SubSeq(prompt_messages, 2, 1 + k) = PromptSummaries
      /\ \A j \in 1..c : prompt_messages[1 + k + j] = Rendered(h[Len(h) - c + j])
      /\ prompt_messages[Len(prompt_messages)] =
           IF promptIn.kind = "auto" THEN UserSays("[Auto-trigger]")
           ELSE UserSays(promptIn.user_message)

C31_SessionsAreFresh ==
  /\ sLast.op = "clear" =>
       GetRecentMessages = << >> /\ current_session_id = None
  /\ sLast.op = "start_new_session" =>
       sLast.ret # sLast.prev /\ GetRecentMessages = << >>

\* C32: every chunk accepted into the chunk queue is handed to the transcriber
\* exactly once and in capture order: the queue grows only at its tail, a chunk
\* leaves it only from the head and into the hands of _loop, and the chunk
\* _loop holds is given up only by running Transcriber.process on it.
C32_ChunksProcessedOnceInOrder ==
  [][/\ chunk_queue' # chunk_queue =>
          \/ \E speech \in BOOLEAN : chunk_queue' = Append(chunk_queue, Chunk(speech, interrupts))
          \/ /\ chunk_queue # << >>
             /\ chunk_queue' = Tail(chunk_queue)
             /\ chunk = << >>
             /\ chunk' = <<Head(chunk_queue)>>
     /\ (chunk # << >> /\ chunk' # chunk) => TranscriberProcess]_vars

\* C33: a subscribe, unsubscribe or unsubscribe_all made while a publish is in
\* flight changes neither the set nor the order of the handlers that publish
\* invokes: the handlers it has started are, in order, the first entries of the
\* list it read when it was called, and that list stays as it was read; the
\* publish called next reads the table as the changes left it.
C33_InFlightPublishUnaffected ==
  /\ [](pub.state \in {"running", "returned"} =>
          /\ Len(startTrace) = pub.started
          /\ \A j \in 1..pub.started :
               startTrace[j] = HandlerCall(pub.handlers[j], pub.event))
  /\ [][/\ (pub.state = "running" /\ pub'.state \in {"running", "returned"}) =>
             (pub'.handlers = pub.handlers /\ pub'.event = pub.event)
        /\ pubCount' # pubCount => pub'.handlers = GetHandlers(pub'.event)]_vars

\* every handler of the second publish has been started, after the table
\* gained a subscription during the first and lost a handler during the second
C33_Witness ==
  /\ pubCount >= 2
  /\ pub.state = "running"
  /\ pub.started = Len(pub.handlers)
  /\ pub.started >= 2
  /\ \E j \in 1..Len(pub.handlers) : ~Registered(pub.event, pub.handlers[j].handler)
  /\ regCount >= 1

\* the place of a status in the lifecycle pending -> processing -> completed
StatusRank(status) ==
  CASE status = PENDING -> 0
    [] status = PROCESSING -> 1
    [] OTHER -> 2

\* C34: mark_completed(i) changes the status of sentence i only; every
\* sentence held in the completed map has status COMPLETED; and the status of
\* a sentence of the routed reply only moves forward, pending -> processing ->
\* completed.
C34_StatusLifecycle ==
  /\ [](\A i \in completed : all_sentences[i].status = COMPLETED)
  /\ [][/\ \A i \in 0..MaxSentences :
             MarkCompleted(i) =>
               \A j \in DOMAIN all_sentences :
                 j # i => all_sentences'[j].status = all_sentences[j].status
        /\ response_id' = response_id =>
             \A j \in DOMAIN all_sentences :
               StatusRank(all_sentences'[j].status) >= StatusRank(all_sentences[j].status)]_vars

\* the turns of a list, as a set
TurnsOf(list) == {list[k] : k \in 1..Len(list)}

\* the compression of save r overlaps another save: that save waits for the
\* lock or summarizes, or its snapshot shares a turn with the snapshot of r
Overlapped(r) ==
  \E q \in Saves \ {r} :
    \/ Snapshotted(q)
    \/ TurnsOf(snap[q]) \cap TurnsOf(snap[r]) # {}

\* C35: when response saves overlap, every turn is included in at most one
\* persisted summary (as long as no compression failed), and the trim of a
\* compression removes from the buffer only turns that are part of a persisted
\* summary.
C35_OverlappingSavesCompressOnce ==
  /\ []((\A r \in Saves : savePc[r] # "failed") =>
          \A i, j \in 1..Len(summaries) :
            i # j => TurnsOf(summaries[i].turns) \cap TurnsOf(summaries[j].turns) = {})
  /\ [][\A r \in Saves :
          (Overlapped(r) /\ CompressFinish(r, "ok")) =>
            \A t \in TurnsOf(buf) \ TurnsOf(buf') :
              \E i \in 1..Len(summaries') : t \in TurnsOf(summaries'[i].turns)]_vars

\* C36: a lane consumer that is blocked in wait_next(slot) when reset() or
\* route_sentences() is called, is eventually given the next sentence routed
\* to that lane: whenever it is blocked and a sentence is queued on the object
\* its lane holds now, it is eventually given a sentence.
C36_BlockedConsumerServed ==
  \A s \in Lanes :
    (waiter[s].state = "blocked" /\ fifoQueue[fifoOf[s]] # << >>)
      ~> (waiter[s].state = "given")

\* the turn add_user_message stored for the new user message
NewUserTurn == [role |-> "user", id |-> Len(promptIn.buffer) + 1]

\* the positions of the prompt whose content is, or ends with, the new user
\* message: the rendering of its stored turn, and the closing user segment
CarriesNewMessage ==
  {j \in 1..Len(prompt_messages) :
     \/ prompt_messages[j] = Rendered(NewUserTurn)
     \/ prompt_messages[j] = UserSays(promptIn.user_message)}

\* C37: in the prompt built by process_user_message the new user message
\* appears exactly once.
C37_UserMessageOnce ==
  (promptIn.kind = "user" /\ prompt_messages # << >>) => Cardinality(CarriesNewMessage) = 1

\* C38: when max_size is smaller than compress_threshold, no sequence of saves
\* triggers compression: no save takes a snapshot, no summary is persisted,
\* and the buffer is a suffix of the turns appended (turns leave it only from
\* the head, by eviction).
C38_SmallBufferNeverCompresses ==
  max_size < CompressThreshold =>
    /\ summaries = << >>
    /\ \A r \in Saves : ~Snapshotted(r)
    /\ buf = SubSeq(appended, Len(appended) - Len(buf) + 1, Len(appended))

\* C39: after any sequence of start_auto_trigger and stop_auto_trigger calls
\* at most one watchdog loop task is live, and after stop_auto_trigger no
\* auto-triggered turn is started until start_auto_trigger is called again.
C39_OneWatchdogTask ==
  /\ [](Cardinality(LiveTasks) <= 1)
  /\ [][autoTurns' # autoTurns => ~stopRequested]_vars

\* the first loop task was cancelled after it ran a turn, a second one was
\* created, and stop_auto_trigger was called again
C39_Witness ==
  /\ taskState[1] = "cancelled"
  /\ taskState[2] = "cancelling"
  /\ stopRequested
  /\ autoTurns >= 1

\* the sequence ids held by the lane queues
QueuedIds == UNION {{queues[l][k] : k \in 1..Len(queues[l])} : l \in Labels}

\* C40: route gives the sentences of all route calls the sequence ids 0, 1,
\* 2, ... in order; a collect_in_order call returns exactly expected_count
\* items, the ids start_sequence_id, start_sequence_id + 1, ... in order; no
\* routed item is lost or duplicated (every id routed is in a queue, held by
\* the running collect, or was returned by a collect, and in one place only);
\* and a collect_in_order call for a batch that was routed returns.
C40_CollectInOrder ==
  /\ [][next_sequence_id' # next_sequence_id =>
          /\ batches'[Len(batches')].start = next_sequence_id
          /\ next_sequence_id' = next_sequence_id + batches'[Len(batches')].count
          /\ QueuedIds' = QueuedIds \cup (next_sequence_id..(next_sequence_id' - 1))]_vars
  /\ [](collectPc = "returned" =>
          out = [k \in 1..batches[collecting].count |-> batches[collecting].start + k - 1])
  /\ [](\A id \in 0..(next_sequence_id - 1) :
          /\ id \in QueuedIds \cup returnedIds
                  \cup (IF collectPc = "waiting"
                        THEN tts_buffer \cup {out[k] : k \in 1..Len(out)} ELSE {})
          /\ ~(id \in QueuedIds /\ id \in returnedIds))
  /\ (collectPc = "waiting") ~> (collectPc = "returned")

====
